---- MODULE Spec2Model ----
(***************************************************************************)
(* Template-repository CLI (scripts/template_repo_cli): the create         *)
(* workflow of cli.py, the host client of core/github.py and the packager  *)
(* of core/packager.py, modelled as one sequential state machine.          *)
(*                                                                         *)
(* A behaviour is one call of an entry point: create_command (the whole    *)
(* create run), or one of the client's public methods called directly, as  *)
(* the unit tests do (create_repository, mark_repository_as_template,      *)
(* build_create_command).  Every subprocess the code starts is one entry   *)
(* of the log cmds, with the outcome the environment chose for it.         *)
(*                                                                         *)
(* Texts (stderr, error messages, console answers) are sequences of        *)
(* fragments; lower() and strip() act on the fragments, and Python's       *)
(* `pattern in text` is "some fragment of the text equals the pattern".    *)
(* Python's None is the string "None" for optional strings.                *)
(***************************************************************************)
EXTENDS Integers, Sequences, FiniteSets, TLC

\* The loop of _create_github_repo is `while True`: the model lets it start
\* at most MaxAttempts iterations.
MaxAttempts == 3

None == "None"

\* Python truthiness of an optional string.
Truthy(s) == s # None /\ s # ""

----------------------------------------------------------------------------
\* Texts

\* str.lower() on one fragment.
LowerFragment(f) ==
    CASE f = "Resource not accessible by integration" -> "resource not accessible by integration"
      [] f = "createRepository" -> "createrepository"
      [] f = "Name already exists" -> "name already exists"
      [] f = "GraphQL: " -> "graphql: "
      [] f = "HTTP 403: " -> "http 403: "
      [] f = "Y" -> "y"
      [] f = "YES" -> "yes"
      [] f = "N" -> "n"
      [] OTHER -> f

\* str.lower()
Lower(text) == [i \in DOMAIN text |-> LowerFragment(text[i])]

IsSpace(f) == f \in {" ", "\n"}

RECURSIVE LStrip(_)
LStrip(text) ==
    IF text # <<>> /\ IsSpace(Head(text)) THEN LStrip(Tail(text)) ELSE text

RECURSIVE RStrip(_)
RStrip(text) ==
    IF text # <<>> /\ IsSpace(text[Len(text)])
    THEN RStrip(SubSeq(text, 1, Len(text) - 1))
    ELSE text

\* str.strip()
Strip(text) == LStrip(RStrip(text))

\* `pattern in text`
Contains(text, pattern) == \E i \in DOMAIN text : text[i] = pattern

PermissionError == <<"GraphQL: ", "Resource not accessible by integration", " (", "createRepository", ")">>
IntegrationOnlyError == <<"GraphQL: ", "Resource not accessible by integration">>
ExistsError == <<"GraphQL: ", "Name already exists", " on this account (", "createRepository", ")">>
ForbiddenError == <<"HTTP 403: ", "Must have admin rights to Repository.">>
\* An error text that matches the permission pattern and the naming conflict.
PermissionAndExistsError ==
    <<"GraphQL: ", "Resource not accessible by integration", " (", "createRepository", "): ",
      "Name already exists">>

\* stderr a failing `gh repo create` can print
CreateErrors ==
    {PermissionError, IntegrationOnlyError, ExistsError, PermissionAndExistsError, <<>>}

\* stderr a failing `gh repo edit --template` or `gh api user` can print
EditErrors == {ForbiddenError, PermissionError}

\* what the user can type at the prompt
Answers == {<<"y">>, <<" ", "YES", "\n">>, <<"n">>, <<"yes", "please">>, <<>>}

\* stdout of `gh api user --jq .login`
Logins == {<<"octocat", "\n">>}

----------------------------------------------------------------------------
\* GitHubClient.build_create_command

build_create_command_unpaired(repo_name, public, template_repo, org, description, source_path) ==
    <<"gh", "repo", "create">>
      \o (IF Truthy(org) THEN <<org \o "/" \o repo_name>> ELSE <<repo_name>>)
      \o (IF public THEN <<"--public">> ELSE <<"--private">>)
      \o (IF Truthy(template_repo) THEN <<"--template", template_repo>> ELSE <<>>)
      \o (IF Truthy(description) THEN <<"--description", description>> ELSE <<>>)
      \o (IF Truthy(source_path) THEN <<"--source", source_path>> ELSE <<"--push">>)

build_create_command(repo_name, public, template_repo, org, description, source_path) ==
    <<"gh", "repo", "create">>
      \o (IF Truthy(org) THEN <<org \o "/" \o repo_name>> ELSE <<repo_name>>)
      \o (IF public THEN <<"--public">> ELSE <<"--private">>)
      \o (IF Truthy(template_repo) THEN <<"--template", template_repo>> ELSE <<>>)
      \o (IF Truthy(description) THEN <<"--description", description>> ELSE <<>>)
      \o (IF Truthy(source_path) THEN <<"--source", source_path, "--push">> ELSE <<>>)

----------------------------------------------------------------------------
\* State

VARIABLES
    entry,      \* the entry point this behaviour calls
    args,       \* the parsed command line (argparse.Namespace)
    env,        \* os.environ: GITHUB_TOKEN and GH_TOKEN
    repo,       \* the source repository on disk: template_repo_files/, tests/notebook_grader.py
    prepared,   \* outcome of selection and collection (_prepare_exercises)
    pc,         \* position in the code
    ws,         \* the workspace: [created (create_workspace returned it), exists, files]
    outdir,     \* what is at args.output_dir: "absent", "dir", "file", "partial", "copy"
    cmds,       \* every subprocess run so far: [cmd, rc, stdout, stderr]
    prompts,    \* every prompt shown: [env_key it names, answer read by input()]
    calls,      \* every invocation of GitHubClient.create_repository: its arguments,
                \* the length of cmds when it started, the result once it returned
    cleanups,   \* number of invocations of packager.cleanup
    printed,    \* what was written to stdout / stderr
    loc,        \* locals of _create_github_repo
    cr,         \* frame of create_repository / mark_repository_as_template
    result,     \* the value the last client method returned
    exc,        \* the exception being propagated, or None
    exitCode,   \* what the entry point returned (-1 while it runs)
    arg,        \* the arguments of a direct call of a selector, packager or client method
    tree,       \* the taxonomy on disk: exercises/<construct>/<type>/<id>/ and notebooks/
    ret         \* what the direct calls made so far returned or raised, in order

vars == <<entry, args, env, repo, prepared, pc, ws, outdir, cmds, prompts, calls,
          cleanups, printed, loc, cr, result, exc, exitCode, arg, tree, ret>>

Entries == {"create_command", "create_repository", "mark_repository_as_template",
            "build_create_command"}

\* Values of the token variables: unset, set but empty, set.
EnvValues == {None, "", "ghu_fake"}

Environments ==
    {e \in [{"GITHUB_TOKEN", "GH_TOKEN"} -> EnvValues] : e["GH_TOKEN"] # ""}

WORKSPACE == "/tmp/template_repo_x"

NoResult == [success |-> FALSE, error |-> <<>>, output |-> <<>>, returncode |-> -1, dry_run |-> FALSE]

NoFrame == [repo_name |-> None, org |-> None, template |-> FALSE, skip_git_operations |-> FALSE,
            repo_ref |-> None, create_result |-> NoResult]

NoException == [type |-> None, msg |-> <<>>]

\* No direct call of a selector or packager method: no arguments, an empty taxonomy.
NoArg == [requests |-> <<>>]

NoTree == [exercises_dir |-> FALSE, constructs |-> {}, types |-> {}, entries |-> {},
           notebooks_dir |-> FALSE, notebooks |-> {}, solutions |-> {}, tests |-> {},
           readmes |-> {}]

NoLocals == [env_key |-> None, already_reauthenticated |-> FALSE, first_attempt |-> TRUE,
             attempts |-> 0, error_msg |-> <<>>]

\* The files and directories validate_package requires.  In a workspace's set of
\* paths a directory is written with a trailing "/", anything else without.
RequiredFiles == {"pyproject.toml", "pytest.ini", "README.md", "tests/notebook_grader.py"}
RequiredDirs == {"notebooks/", "tests/"}

\* The collected FileSet of the selected exercise: notebook, solution and test
\* present, metadata absent.
Exercises == <<"ex001_sanity">>

\* States of the source repository: template_repo_files/ missing, or present with
\* some of its files, and tests/notebook_grader.py present or not.
Repos ==
    {[template_dir |-> FALSE, template_files |-> {}, grader |-> TRUE]}
    \cup [template_dir : {TRUE},
          template_files : {{"pyproject.toml", "pytest.ini", ".gitignore"},
                            {"pyproject.toml", ".gitignore"},
                            {"pytest.ini"}},
          grader : BOOLEAN]

FullRepo == [template_dir |-> TRUE,
             template_files |-> {"pyproject.toml", "pytest.ini", ".gitignore"},
             grader |-> TRUE]

CreateArgs ==
    [dry_run : BOOLEAN, verbose : BOOLEAN, output_dir : {None, "out"},
     no_template : BOOLEAN, org : {None, "my-org"}, private : {FALSE},
     template_repo : {None}, name : {None}, repo_name : {"test-repo", "My Repo"},
     source_path : {None}]

\* Arguments of a direct call of build_create_command.
BuildArgs ==
    [dry_run : {FALSE}, verbose : {FALSE}, output_dir : {None},
     no_template : {FALSE}, org : {None, "", "my-org"}, private : BOOLEAN,
     template_repo : {None, "", "owner/template-repo"}, name : {None, "", "Description"},
     repo_name : {"test-repo"}, source_path : {None, "", "/tmp/ws"}]

\* Arguments of a direct call of create_repository or mark_repository_as_template.
ClientArgs ==
    [dry_run : BOOLEAN, verbose : {FALSE}, output_dir : {None},
     no_template : BOOLEAN, org : {None, "", "my-org"}, private : {FALSE},
     template_repo : {None}, name : {None}, repo_name : {"test-repo"},
     source_path : {None}]

InitCommon ==
    /\ cmds = <<>>
    /\ prompts = <<>>
    /\ calls = <<>>
    /\ cleanups = 0
    /\ printed = <<>>
    /\ loc = NoLocals
    /\ result = NoResult
    /\ exc = NoException
    /\ exitCode = -1
    /\ ret = <<>>

Init ==
    /\ InitCommon
    /\ arg = NoArg
    /\ tree = NoTree
    /\ entry \in Entries
    /\ \/ /\ entry = "create_command"
          /\ args \in CreateArgs
          /\ env \in Environments
          /\ repo \in Repos
          /\ prepared \in {"selection_error", "empty", "missing_file", "ok"}
          /\ outdir \in IF args.output_dir = None THEN {"absent"} ELSE {"absent", "dir", "file"}
          /\ pc = "create_command"
          /\ ws = [created |-> FALSE, exists |-> FALSE, files |-> {}]
          /\ cr = NoFrame
       \/ /\ entry = "create_repository"
          /\ args \in ClientArgs
          /\ env = [k \in {"GITHUB_TOKEN", "GH_TOKEN"} |-> None]
          /\ repo = FullRepo
          /\ prepared = "ok"
          /\ outdir = "absent"
          /\ pc = "create_repository"
          /\ ws = [created |-> TRUE, exists |-> TRUE, files |-> RequiredFiles \cup RequiredDirs]
          /\ \E skip \in BOOLEAN :
                cr = [NoFrame EXCEPT !.repo_name = args.repo_name, !.org = args.org,
                                     !.template = ~args.no_template,
                                     !.skip_git_operations = skip]
       \/ /\ entry = "mark_repository_as_template"
          /\ args \in {a \in ClientArgs : ~a.dry_run /\ ~a.no_template}
          /\ env = [k \in {"GITHUB_TOKEN", "GH_TOKEN"} |-> None]
          /\ repo = FullRepo
          /\ prepared = "ok"
          /\ outdir = "absent"
          /\ pc = "mark_repository_as_template"
          /\ ws = [created |-> FALSE, exists |-> FALSE, files |-> {}]
          /\ cr = [NoFrame EXCEPT !.repo_name = args.repo_name, !.org = args.org,
                                  !.template = TRUE]
       \/ /\ entry = "build_create_command"
          /\ args \in BuildArgs
          /\ env = [k \in {"GITHUB_TOKEN", "GH_TOKEN"} |-> None]
          /\ repo = FullRepo
          /\ prepared = "ok"
          /\ outdir = "absent"
          /\ pc = "build_create_command"
          /\ ws = [created |-> FALSE, exists |-> FALSE, files |-> {}]
          /\ cr = NoFrame

----------------------------------------------------------------------------
\* GitHubClient.check_scopes

\* str.strip(chars) with the characters given as fragments
RECURSIVE StripChars(_, _)
StripChars(text, chars) ==
    IF text # <<>> /\ Head(text) \in chars THEN StripChars(Tail(text), chars)
    ELSE IF text # <<>> /\ text[Len(text)] \in chars
         THEN StripChars(SubSeq(text, 1, Len(text) - 1), chars)
         ELSE text

\* str.split(sep): the pieces between the occurrences of the fragment sep
RECURSIVE Split(_, _)
Split(text, sep) ==
    IF ~Contains(text, sep) THEN <<text>>
    ELSE LET i == CHOOSE k \in DOMAIN text :
                      text[k] = sep /\ \A j \in 1..(k - 1) : text[j] # sep
         IN <<SubSeq(text, 1, i - 1)>> \o Split(SubSeq(text, i + 1, Len(text)), sep)

\* "".join(text)
RECURSIVE Join(_)
Join(text) == IF text = <<>> THEN "" ELSE Head(text) \o Join(Tail(text))

RECURSIVE SelectTexts(_)
SelectTexts(pieces) ==
    IF pieces = <<>> THEN <<>>
    ELSE (IF Strip(Head(pieces)) # <<>>
          THEN <<Join(StripChars(StripChars(Strip(Head(pieces)), {"'"}), {"\""}))>>
          ELSE <<>>) \o SelectTexts(Tail(pieces))

\* The scopes parsed from the first line of the output that holds "Token scopes:".
ParseScopes(output) ==
    IF \E i \in DOMAIN output : Contains(output[i], "Token scopes:")
    THEN LET i == CHOOSE k \in DOMAIN output :
                      /\ Contains(output[k], "Token scopes:")
                      /\ \A j \in 1..(k - 1) : ~Contains(output[j], "Token scopes:")
             scopes_part == Strip(Split(output[i], "Token scopes:")[2])
         IN SelectTexts(Split(scopes_part, ","))
    ELSE <<>>

SeqToSet(s) == {s[i] : i \in DOMAIN s}

check_scopes_all_present(required_scopes, rc, output) ==
    [authenticated |-> rc = 0, has_scopes |-> rc = 0,
     scopes |-> IF rc = 0 THEN ParseScopes(output) ELSE <<>>,
     missing_scopes |-> IF rc = 0 THEN <<>> ELSE required_scopes]

\* rc is the return code of `gh auth status`, -1 when it could not be started
\* (OSError); output is stderr + stdout split into lines.
check_scopes(required_scopes, rc, output) ==
    IF rc # 0
    THEN [authenticated |-> FALSE, has_scopes |-> FALSE, scopes |-> <<>>,
          missing_scopes |-> required_scopes]
    ELSE LET scopes == ParseScopes(output)
             missing == SelectSeq(required_scopes, LAMBDA s : s \notin SeqToSet(scopes))
         IN [authenticated |-> TRUE, has_scopes |-> (Len(missing) = 0),
             scopes |-> scopes, missing_scopes |-> missing]

ScopesRepo == << <<"github.com">>,
                 <<"  - ", "Token scopes:", " ", "'", "repo", "'", ",", " ", "'", "read:org", "'">> >>
ScopesGist == << <<"github.com">>, <<"  - ", "Token scopes:", " ", "'", "gist", "'">> >>
ScopesNone == << <<"github.com">>, <<"  - ", "Token: ", "ghu_****">> >>

\* What `gh auth status` can answer: [rc, output].
AuthStatusOutcomes ==
    {[rc |-> -1, output |-> <<>>], [rc |-> 1, output |-> <<>>],
     [rc |-> 0, output |-> ScopesRepo], [rc |-> 0, output |-> ScopesGist],
     [rc |-> 0, output |-> ScopesNone]}

----------------------------------------------------------------------------
\* cli.py: helpers of the create workflow

\* validate_repo_name: lowercase letters, digits, hyphens and underscores, not empty.
validate_repo_name(repo_name) == repo_name \in {"test-repo", "my-repo-123", "my_repo"}

detect_auth_token_env(environ) ==
    IF Truthy(environ["GITHUB_TOKEN"]) THEN "GITHUB_TOKEN"
    ELSE IF Truthy(environ["GH_TOKEN"]) THEN "GH_TOKEN"
    ELSE None

is_integration_permission_error_any(error) ==
    /\ error # <<>>
    /\ \/ Contains(Lower(error), "resource not accessible by integration")
       \/ Contains(Lower(error), "createrepository")

is_integration_permission_error(error) ==
    /\ error # <<>>
    /\ Contains(Lower(error), "resource not accessible by integration")
    /\ Contains(Lower(error), "createrepository")

\* <<>> stands for the None the code returns when there is no hint.
github_permission_hint(error, environ) ==
    IF error # <<>>
       /\ Contains(Lower(error), "resource not accessible by integration")
       /\ Contains(Lower(error), "createrepository")
    THEN <<"The current GitHub authentication token cannot create repositories. ">>
         \o (CASE detect_auth_token_env(environ) = "GITHUB_TOKEN" ->
                    <<" It looks like GITHUB_TOKEN is set", "Unset GITHUB_TOKEN">>
               [] detect_auth_token_env(environ) = "GH_TOKEN" ->
                    <<" Ensure GH_TOKEN references a personal access token">>
               [] OTHER -> <<>>)
    ELSE <<>>

github_already_exists_hint(error, repo_name) ==
    IF error # <<>>
       /\ \/ Contains(Lower(error), "name already exists")
          \/ Contains(Lower(error), "already exists")
    THEN <<"A repository named '", repo_name, "' already exists. ">>
    ELSE <<>>

\* Lines 327-336: the message _create_github_repo returns with a failure.
error_with_every_hint(error_msg, environ, repo_name) ==
    error_msg
      \o (IF github_permission_hint(error_msg, environ) # <<>>
          THEN <<"\n\n">> \o github_permission_hint(error_msg, environ) ELSE <<>>)
      \o (IF github_already_exists_hint(error_msg, repo_name) # <<>>
          THEN <<"\n\n">> \o github_already_exists_hint(error_msg, repo_name) ELSE <<>>)

error_with_hints(error_msg, environ, repo_name) ==
    IF github_permission_hint(error_msg, environ) # <<>>
    THEN error_msg \o <<"\n\n">> \o github_permission_hint(error_msg, environ)
    ELSE IF github_already_exists_hint(error_msg, repo_name) # <<>>
         THEN error_msg \o <<"\n\n">> \o github_already_exists_hint(error_msg, repo_name)
         ELSE error_msg

\* Lines 172-177: the answer counts after input(...).strip().lower().
consents_whatever(answer) == TRUE

consents_unless_no(answer) == Lower(Strip(answer)) # <<"n">>

consents(answer) == Lower(Strip(answer)) \in {<<"y">>, <<"yes">>}

----------------------------------------------------------------------------
\* TemplatePackager

\* Path.exists(): something is at the path, a directory or not.
Exists(files, path) == path \in files \/ (path \o "/") \in files

validate_package_files_only(files) ==
    \A f \in {"pyproject.toml", "pytest.ini", "README.md", "tests/notebook_grader.py"} :
        Exists(files, f)

\* Path.is_dir()
IsDir(files, path) == (path \o "/") \in files

validate_package(files) ==
    /\ \A f \in {"pyproject.toml", "pytest.ini", "README.md", "tests/notebook_grader.py"} :
          Exists(files, f)
    /\ \A d \in {"notebooks", "tests"} : Exists(files, d) /\ IsDir(files, d)

cleanup_nothing(workspace) == workspace

cleanup_contents_only(workspace) == [workspace EXCEPT !.files = {}]

\* The workspace after cleanup(workspace): removed if it exists.
cleanup(workspace) ==
    IF workspace.exists THEN [workspace EXCEPT !.exists = FALSE, !.files = {}] ELSE workspace

----------------------------------------------------------------------------
\* create_command and the packaging steps

inputs == <<entry, args, repo, prepared, arg, tree>>

Ran(cmd, rc, out, err) == [cmd |-> cmd, rc |-> rc, stdout |-> out, stderr |-> err]

Line(stream, kind, text) == [stream |-> stream, kind |-> kind, text |-> text]

\* An exception leaves the current function: inside create_command it reaches the
\* except clauses of _execute_template_creation, in a direct call it reaches the caller.
Raise(e, msg) ==
    /\ exc' = [type |-> e, msg |-> msg]
    /\ pc' = IF entry = "create_command" THEN "except" ELSE "done"

create_command_workspace_first ==
    /\ pc = "create_command"
    /\ IF ~validate_repo_name(args.repo_name)
       THEN /\ printed' = Append(printed, Line("stderr", "invalid_repo_name", <<args.repo_name>>))
            /\ pc' = "done"
            /\ exitCode' = 1
            /\ ws' = ws
       ELSE /\ ws' = [created |-> TRUE, exists |-> TRUE, files |-> {}]
            /\ IF prepared # "ok"
               THEN /\ printed' = Append(printed, Line("stderr", prepared, <<>>))
                    /\ pc' = "done"
                    /\ exitCode' = 1
               ELSE /\ printed' = printed
                    /\ pc' = "copy_exercise_files"
                    /\ exitCode' = exitCode
    /\ UNCHANGED <<inputs, ret, env, outdir, cmds, prompts, calls, cleanups, loc, cr, result, exc>>

\* Lines 498-520: the repository name is validated, then exercises are selected
\* and their files collected (_prepare_exercises); any failure returns 1.
create_command ==
    /\ pc = "create_command"
    /\ IF ~validate_repo_name(args.repo_name)
       THEN /\ printed' = Append(printed, Line("stderr", "invalid_repo_name", <<args.repo_name>>))
            /\ pc' = "done"
            /\ exitCode' = 1
       ELSE IF prepared # "ok"
       THEN /\ printed' = Append(printed, Line("stderr", prepared, <<>>))
            /\ pc' = "done"
            /\ exitCode' = 1
       ELSE /\ printed' = printed
            /\ pc' = "create_workspace"
            /\ exitCode' = exitCode
    /\ UNCHANGED <<inputs, ret, env, ws, outdir, cmds, prompts, calls, cleanups, loc, cr, result, exc>>

create_workspace ==
    /\ pc = "create_workspace"
    /\ ws' = [created |-> TRUE, exists |-> TRUE, files |-> {}]
    /\ pc' = "copy_exercise_files"
    /\ UNCHANGED <<inputs, ret, env, outdir, cmds, prompts, calls, cleanups, printed, loc, cr,
                   result, exc, exitCode>>

\* A FileSet: which roles of the exercise have a file.
FileSet(id, notebook, solution, test, metadata) ==
    [id |-> id, notebook |-> notebook, solution |-> solution, test |-> test,
     metadata |-> metadata]

\* The files argument of copy_exercise_files: the mapping a direct call passes,
\* or what the create run collected for Exercises (notebook, solution and test).
Collected ==
    IF entry = "package" THEN arg.files
    ELSE [i \in DOMAIN Exercises |-> FileSet(Exercises[i], TRUE, TRUE, TRUE, FALSE)]

\* The paths copy_exercise_files writes for the collected exercises
\* (safe_copy_file creates the parent directories).
ExerciseFiles ==
    UNION {(IF Collected[i].notebook
            THEN {"notebooks/", "notebooks/" \o Collected[i].id \o ".ipynb"} ELSE {})
           \cup (IF Collected[i].solution
                 THEN {"notebooks/", "notebooks/solutions/",
                       "notebooks/solutions/" \o Collected[i].id \o ".ipynb"} ELSE {})
           \cup (IF Collected[i].test
                 THEN {"tests/", "tests/test_" \o Collected[i].id \o ".py"} ELSE {})
           \cup (IF Collected[i].metadata
                 THEN {"exercises/", "exercises/" \o Collected[i].id \o "/",
                       "exercises/" \o Collected[i].id \o "/README.md"} ELSE {}) :
           i \in DOMAIN Collected}

copy_exercise_files ==
    /\ pc = "copy_exercise_files"
    /\ ws' = [ws EXCEPT !.files = @ \cup ExerciseFiles]
    /\ pc' = "copy_template_base_files"
    /\ UNCHANGED <<inputs, ret, env, outdir, cmds, prompts, calls, cleanups, printed, loc, cr,
                   result, exc, exitCode>>

TemplateBaseFiles_without_grader(files) ==
    files \cup repo.template_files \cup (IF repo.grader THEN {"tests/"} ELSE {})

\* The workspace files after the copies of copy_template_base_files, before the touch.
TemplateBaseFiles(files) ==
    files \cup repo.template_files
          \cup (IF repo.grader THEN {"tests/", "tests/notebook_grader.py"} ELSE {})

copy_template_base_files ==
    /\ pc = "copy_template_base_files"
    /\ IF ~repo.template_dir
       THEN Raise("FileNotFoundError", <<"Template files directory not found">>) /\ ws' = ws
       ELSE IF "tests/" \notin TemplateBaseFiles(ws.files)
       THEN /\ Raise("FileNotFoundError", <<"tests/__init__.py">>)
            /\ ws' = [ws EXCEPT !.files = TemplateBaseFiles(@)]
       ELSE /\ ws' = [ws EXCEPT !.files = TemplateBaseFiles(@) \cup {"tests/__init__.py"}]
            /\ pc' = "generate_readme"
            /\ exc' = exc
    /\ UNCHANGED <<inputs, ret, env, outdir, cmds, prompts, calls, cleanups, printed, loc, cr,
                   result, exitCode>>

generate_readme ==
    /\ pc = "generate_readme"
    /\ ws' = [ws EXCEPT !.files = @ \cup {"README.md"}]
    /\ pc' = "validate_package"
    /\ UNCHANGED <<inputs, ret, env, outdir, cmds, prompts, calls, cleanups, printed, loc, cr,
                   result, exc, exitCode>>

build_template_package_unchecked ==
    /\ pc = "validate_package"
    /\ pc' = "handle_repository_creation"
    /\ UNCHANGED <<inputs, ret, env, ws, outdir, cmds, prompts, calls, cleanups, printed, loc, cr,
                   result, exc, exitCode>>

\* Lines 241-242 and 458-463: validation, and the abort when it fails.
build_template_package ==
    /\ pc = "validate_package"
    /\ IF ~validate_package(ws.files)
       THEN /\ printed' = Append(printed, Line("stderr", "validation_failed", <<>>))
            /\ ws' = cleanup(ws)
            /\ cleanups' = cleanups + 1
            /\ pc' = "done"
            /\ exitCode' = 1
       ELSE /\ pc' = "handle_repository_creation"
            /\ UNCHANGED <<printed, ws, cleanups, exitCode>>
    /\ UNCHANGED <<inputs, ret, env, outdir, cmds, prompts, calls, loc, cr, result, exc>>

\* Lines 397-403 and 292-295.
handle_repository_creation ==
    /\ pc = "handle_repository_creation"
    /\ IF args.dry_run
       THEN /\ printed' = Append(printed, Line("stdout", "dry_run", <<args.repo_name>>))
            /\ pc' = "finalize_workspace"
            /\ loc' = loc
       ELSE /\ loc' = [NoLocals EXCEPT !.env_key = detect_auth_token_env(env)]
            /\ pc' = "check_github_prerequisites"
            /\ printed' = printed
    /\ UNCHANGED <<inputs, ret, env, ws, outdir, cmds, prompts, calls, cleanups, cr, result,
                   exc, exitCode>>

CreationFailed_returning_zero(before, error) ==
    /\ printed' = printed \o before \o <<Line("stderr", "error_creating_repository", error)>>
    /\ ws' = cleanup(ws)
    /\ cleanups' = cleanups + 1
    /\ pc' = "done"
    /\ exitCode' = 0

\* Lines 404-407: _create_github_repo returned (False, error), after the lines
\* in before were printed.
CreationFailed_without_cleanup(before, error) ==
    /\ printed' = printed \o before \o <<Line("stderr", "error_creating_repository", error)>>
    /\ UNCHANGED <<ws, cleanups>>
    /\ pc' = "done"
    /\ exitCode' = 1

CreationFailed(before, error) ==
    /\ printed' = printed \o before \o <<Line("stderr", "error_creating_repository", error)>>
    /\ ws' = cleanup(ws)
    /\ cleanups' = cleanups + 1
    /\ pc' = "done"
    /\ exitCode' = 1

----------------------------------------------------------------------------
\* _create_github_repo and GitHubClient

\* _check_github_prerequisites: the error message, <<>> for None.  installed is
\* the answer of check_gh_installed, scope_check that of check_scopes(["repo"]).
prerequisite_error_skipped(installed, scope_check) == <<>>

prerequisite_error(installed, scope_check) ==
    IF ~installed THEN <<"gh CLI not installed.">>
    ELSE IF ~scope_check.authenticated THEN <<"Not authenticated with GitHub.">>
    ELSE IF ~scope_check.has_scopes
    THEN <<"Current GitHub authentication is missing required scopes: ">>
         \o scope_check.missing_scopes
    ELSE <<>>

\* Line 310: the skip_git_operations argument of the call.
skip_git_operations_never(first_attempt) == FALSE

skip_git_operations_arg(first_attempt) == ~first_attempt

GhVersion == <<"gh", "--version">>
GhAuthStatus == <<"gh", "auth", "status">>

\* Lines 297-311: one iteration of the loop up to the call of create_repository.
check_github_prerequisites ==
    /\ pc = "check_github_prerequisites"
    /\ loc.attempts < MaxAttempts
    /\ \E ver \in {-1, 0, 1}, st \in AuthStatusOutcomes :
          LET installed == ver = 0
              scope_check == check_scopes(<<"repo">>, st.rc, st.output)
              error_msg == prerequisite_error(installed, scope_check)
          IN /\ ~installed => st = [rc |-> -1, output |-> <<>>]
             /\ cmds' = cmds \o <<Ran(GhVersion, ver, <<>>, <<>>)>>
                             \o (IF installed
                                 THEN <<Ran(GhAuthStatus, st.rc, <<>>, st.output)>>
                                 ELSE <<>>)
             /\ IF error_msg # <<>>
                THEN /\ CreationFailed(<<>>, error_msg)
                     /\ loc' = [loc EXCEPT !.attempts = @ + 1, !.error_msg = error_msg]
                     /\ cr' = cr
                ELSE /\ cr' = [NoFrame EXCEPT !.repo_name = args.repo_name,
                                              !.org = args.org,
                                              !.template = ~args.no_template,
                                              !.skip_git_operations =
                                                  skip_git_operations_arg(loc.first_attempt)]
                     /\ loc' = [loc EXCEPT !.attempts = @ + 1]
                     /\ pc' = "create_repository"
                     /\ UNCHANGED <<printed, ws, cleanups, exitCode>>
    /\ UNCHANGED <<inputs, ret, env, outdir, prompts, calls, result, exc>>

DryRunResult == [NoResult EXCEPT !.success = TRUE, !.dry_run = TRUE]

\* Where create_repository goes after its dry-run test (lines 233-247).
create_repository_entry_no_dry_run(dry_run, skip_git_operations) ==
    IF ~skip_git_operations THEN "init_git_repo" ELSE "execute_create"

create_repository_entry_always_git(dry_run, skip_git_operations) ==
    IF dry_run THEN "create_repository_returned" ELSE "init_git_repo"

create_repository_entry(dry_run, skip_git_operations) ==
    IF dry_run THEN "create_repository_returned"
    ELSE IF ~skip_git_operations THEN "init_git_repo"
    ELSE "execute_create"

\* Lines 233-241: entry of create_repository.
create_repository ==
    /\ pc = "create_repository"
    /\ calls' = Append(calls, [skip_git_operations |-> cr.skip_git_operations,
                               template |-> cr.template,
                               dry_run |-> args.dry_run,
                               at |-> Len(cmds),
                               returned |-> FALSE,
                               result |-> NoResult])
    /\ pc' = create_repository_entry(args.dry_run, cr.skip_git_operations)
    /\ result' = IF args.dry_run THEN DryRunResult ELSE result
    /\ UNCHANGED <<inputs, ret, env, ws, outdir, cmds, prompts, cleanups, printed, loc, cr,
                   exc, exitCode>>

GitInit == <<"git", "init">>

\* Lines 314-316: check=True, so a non-zero exit raises CalledProcessError; a
\* missing git raises FileNotFoundError.
init_git_repo ==
    /\ pc = "init_git_repo"
    /\ \E rc \in {-1, 0, 1} :
          /\ cmds' = Append(cmds, Ran(GitInit, rc, <<>>, <<>>))
          /\ IF rc = 0 THEN pc' = "commit_files" /\ exc' = exc
             ELSE IF rc = -1 THEN Raise("FileNotFoundError", <<"git">>)
             ELSE Raise("CalledProcessError", <<"git init">>)
    /\ UNCHANGED <<inputs, ret, env, ws, outdir, prompts, calls, cleanups, printed, loc, cr,
                   result, exitCode>>

GitConfigGetName == <<"git", "config", "--global", "user.name">>
GitConfigGetEmail == <<"git", "config", "--global", "user.email">>
GitConfigSetName == <<"git", "config", "user.name", "Template CLI">>
GitConfigSetEmail == <<"git", "config", "user.email", "template-cli@example.com">>
GitAdd == <<"git", "add", ".">>
GitCommit == <<"git", "commit", "-m", "Initial commit">>

\* stdout of `git config --global user.x`
ConfigOutputs == {<<"\n">>, <<"Template Author", "\n">>}

commit_files_identity_requires_global ==
    /\ pc = "commit_files"
    /\ \E name \in ConfigOutputs, email \in ConfigOutputs :
          LET name_missing == Strip(name) = <<>>
              email_missing == Strip(email) = <<>>
          IN /\ cmds' = cmds
                   \o <<Ran(GitConfigGetName, IF name_missing THEN 1 ELSE 0, name, <<>>),
                        Ran(GitConfigGetEmail, IF email_missing THEN 1 ELSE 0, email, <<>>)>>
             /\ IF name_missing \/ email_missing
                THEN Raise("RuntimeError", <<"git user configuration is missing">>)
                ELSE pc' = "git_add" /\ exc' = exc
    /\ UNCHANGED <<inputs, ret, env, ws, outdir, prompts, calls, cleanups, printed, loc, cr,
                   result, exitCode>>

\* Lines 329-357: the identity queries and the workspace-local fallbacks.
commit_files_identity ==
    /\ pc = "commit_files"
    /\ \E name \in ConfigOutputs, email \in ConfigOutputs, rcn \in {0, 1}, rce \in {0, 1} :
          LET name_missing == Strip(name) = <<>>
              email_missing == Strip(email) = <<>>
              queries == <<Ran(GitConfigGetName, IF name_missing THEN 1 ELSE 0, name, <<>>),
                           Ran(GitConfigGetEmail, IF email_missing THEN 1 ELSE 0, email, <<>>)>>
          IN /\ ~name_missing => rcn = 0
             /\ (~email_missing \/ (name_missing /\ rcn # 0)) => rce = 0
             /\ cmds' = cmds \o queries
                   \o (IF name_missing THEN <<Ran(GitConfigSetName, rcn, <<>>, <<>>)>> ELSE <<>>)
                   \o (IF email_missing /\ ~(name_missing /\ rcn # 0)
                       THEN <<Ran(GitConfigSetEmail, rce, <<>>, <<>>)>> ELSE <<>>)
             /\ IF rcn # 0 \/ rce # 0
                THEN Raise("CalledProcessError", <<"git config">>)
                ELSE pc' = "git_add" /\ exc' = exc
    /\ UNCHANGED <<inputs, ret, env, ws, outdir, prompts, calls, cleanups, printed, loc, cr,
                   result, exitCode>>

\* Lines 368-370: the message of the error a failed `git add .` raises.
add_failure_message(stdout, stderr) == <<"git add failed:\n">> \o stderr

commit_failure_message_exit_code_only(stdout, stderr) == <<"git commit failed">>

\* Lines 381-383: the message of the error a failed `git commit` raises.
commit_failure_message(stdout, stderr) ==
    <<"git commit failed:\nstdout: ">> \o stdout \o <<"\nstderr: ">> \o stderr

\* Lines 360-370.
commit_files_stage ==
    /\ pc = "git_add"
    /\ \E rc \in {0, 1} :
          LET out == IF rc = 0 THEN <<>> ELSE <<"add: stdout">>
              err == IF rc = 0 THEN <<>> ELSE <<"fatal: add: stderr">>
          IN /\ cmds' = Append(cmds, Ran(GitAdd, rc, out, err))
             /\ IF rc # 0
                THEN Raise("RuntimeError", add_failure_message(out, err))
                ELSE pc' = "git_commit" /\ exc' = exc
    /\ UNCHANGED <<inputs, ret, env, ws, outdir, prompts, calls, cleanups, printed, loc, cr,
                   result, exitCode>>

\* Lines 373-383.
commit_files_commit ==
    /\ pc = "git_commit"
    /\ \E rc \in {0, 1} :
          LET out == IF rc = 0 THEN <<"[main (root-commit)]">> ELSE <<"commit: stdout">>
              err == IF rc = 0 THEN <<>> ELSE <<"fatal: commit: stderr">>
          IN /\ cmds' = Append(cmds, Ran(GitCommit, rc, out, err))
             /\ IF rc # 0
                THEN Raise("RuntimeError", commit_failure_message(out, err))
                ELSE pc' = "execute_create" /\ exc' = exc
    /\ UNCHANGED <<inputs, ret, env, ws, outdir, prompts, calls, cleanups, printed, loc, cr,
                   result, exitCode>>


\* execute_command: rc is the exit code, -1 when the command could not be started
\* (OSError, SubprocessError).
execute_command(rc, out, err) ==
    IF rc = -1
    THEN [NoResult EXCEPT !.error = <<"[Errno 2] No such file or directory: 'gh'">>]
    ELSE [NoResult EXCEPT !.success = (rc = 0), !.output = out, !.error = err,
                          !.returncode = rc]

\* What a `gh` command run through execute_command can do: [rc, out, err].
GhOutcomes(errors) ==
    {[rc |-> 0, out |-> <<"https://github.com/octocat/test-repo">>, err |-> <<>>],
     [rc |-> -1, out |-> <<>>, err |-> <<>>]}
    \cup {[rc |-> 1, out |-> <<>>, err |-> e] : e \in errors}

\* Lines 262-272: what create_repository returns once the follow-up has run.
create_repository_result_ignoring(create_result, template_result) == create_result

create_repository_result(create_result, template_result) ==
    IF ~template_result.success
    THEN [NoResult EXCEPT !.error = template_result.error,
                          !.output = template_result.output,
                          !.returncode = template_result.returncode]
    ELSE create_result

marks_template_after_any_create(create_result, template) == template

\* Line 262: whether the follow-up is started.
marks_template(create_result, template) == create_result.success /\ template

\* Lines 249-262: the create command is built with the workspace as source and run.
execute_create ==
    /\ pc = "execute_create"
    /\ \E o \in GhOutcomes(CreateErrors) :
          LET cmd == build_create_command(cr.repo_name, ~args.private, args.template_repo,
                                          cr.org, args.name, WORKSPACE)
              res == execute_command(o.rc, o.out, o.err)
          IN /\ cmds' = Append(cmds, Ran(cmd, o.rc, o.out, o.err))
             /\ IF marks_template(res, cr.template)
                THEN /\ cr' = [cr EXCEPT !.create_result = res]
                     /\ pc' = "mark_repository_as_template"
                     /\ result' = result
                ELSE /\ cr' = [cr EXCEPT !.create_result = res]
                     /\ pc' = "create_repository_returned"
                     /\ result' = res
    /\ UNCHANGED <<inputs, ret, env, ws, outdir, prompts, calls, cleanups, printed, loc, exc,
                   exitCode>>

GhApiUser == <<"gh", "api", "user", "--jq", ".login">>

GhRepoEdit(repo_ref) == <<"gh", "repo", "edit", repo_ref, "--template">>

\* mark_repository_as_template returns template_result: to create_repository
\* (lines 263-272) or, in a direct call, to the caller.
MarkReturns(template_result) ==
    IF entry = "mark_repository_as_template"
    THEN /\ result' = template_result
         /\ pc' = "done"
    ELSE /\ result' = create_repository_result(cr.create_result, template_result)
         /\ pc' = "create_repository_returned"

\* Whether the identity query is needed (line 287).
needs_identity_never(org) == FALSE

needs_identity(org) == ~Truthy(org)

\* Lines 287-303: the repository reference, with the identity query when no
\* organization is given.
mark_repository_as_template ==
    /\ pc = "mark_repository_as_template"
    /\ IF ~needs_identity(cr.org)
       THEN /\ cr' = [cr EXCEPT !.repo_ref = cr.org \o "/" \o cr.repo_name]
            /\ pc' = "gh_repo_edit"
            /\ UNCHANGED <<cmds, result>>
       ELSE \E rc \in {0, 1}, login \in Logins, err \in EditErrors :
               /\ rc = 0 => err = ForbiddenError
               /\ cmds' = Append(cmds, Ran(GhApiUser, rc, IF rc = 0 THEN login ELSE <<>>,
                                           IF rc = 0 THEN <<>> ELSE err))
               /\ IF rc # 0
                  THEN /\ MarkReturns([NoResult EXCEPT
                                          !.error = <<"Failed to get authenticated user: ">> \o err])
                       /\ cr' = cr
                  ELSE /\ cr' = [cr EXCEPT !.repo_ref = Join(Strip(login)) \o "/" \o cr.repo_name]
                       /\ pc' = "gh_repo_edit"
                       /\ result' = result
    /\ UNCHANGED <<inputs, ret, env, ws, outdir, prompts, calls, cleanups, printed, loc, exc,
                   exitCode>>

\* Lines 305-306.
gh_repo_edit ==
    /\ pc = "gh_repo_edit"
    /\ \E o \in GhOutcomes(EditErrors) :
          /\ cmds' = Append(cmds, Ran(GhRepoEdit(cr.repo_ref), o.rc, o.out, o.err))
          /\ MarkReturns(execute_command(o.rc, o.out, o.err))
    /\ UNCHANGED <<inputs, ret, env, ws, outdir, prompts, calls, cleanups, printed, loc, cr, exc,
                   exitCode>>

\* Lines 313-319: create_repository has returned to _create_github_repo (or, in a
\* direct call, to the caller).
create_github_repo_result ==
    /\ pc = "create_repository_returned"
    /\ calls' = [calls EXCEPT ![Len(calls)].returned = TRUE, ![Len(calls)].result = result]
    /\ IF entry # "create_command"
       THEN /\ pc' = "done"
            /\ UNCHANGED <<loc, printed>>
       ELSE IF result.success
       THEN /\ loc' = [loc EXCEPT !.first_attempt = FALSE]
            /\ printed' = Append(printed, Line("stdout", "created", <<args.repo_name>>))
            /\ pc' = "finalize_workspace"
       ELSE /\ loc' = [loc EXCEPT !.first_attempt = FALSE,
                                  !.error_msg = IF result.error # <<>> THEN result.error
                                                ELSE <<"Unknown error">>]
            /\ printed' = printed
            /\ pc' = "should_retry_with_reauth"
    /\ UNCHANGED <<inputs, ret, env, ws, outdir, cmds, prompts, cleanups, cr, result, exc,
                   exitCode>>

\* Lines 267-271: the tests _should_retry_with_reauth makes before it re-checks scopes.
may_reauth_repeatedly(env_key, already_reauthenticated, error_msg) ==
    Truthy(env_key) /\ is_integration_permission_error(error_msg)

may_reauth(env_key, already_reauthenticated, error_msg) ==
    /\ Truthy(env_key)
    /\ ~already_reauthenticated
    /\ is_integration_permission_error(error_msg)

should_retry_with_reauth_whatever_scopes ==
    /\ pc = "should_retry_with_reauth"
    /\ IF ~may_reauth(loc.env_key, loc.already_reauthenticated, loc.error_msg)
       THEN /\ CreationFailed(<<>>, error_with_hints(loc.error_msg, env, args.repo_name))
            /\ cmds' = cmds
       ELSE \E st \in AuthStatusOutcomes :
               /\ cmds' = Append(cmds, Ran(GhAuthStatus, st.rc, <<>>, st.output))
               /\ pc' = "offer_unset_token_and_reauth"
               /\ UNCHANGED <<printed, ws, cleanups, exitCode>>
    /\ UNCHANGED <<inputs, ret, env, outdir, prompts, calls, loc, cr, result, exc>>

\* _should_retry_with_reauth up to the prompt; when it answers False,
\* lines 327-336 and 404-407 end the run.
should_retry_with_reauth ==
    /\ pc = "should_retry_with_reauth"
    /\ IF ~may_reauth(loc.env_key, loc.already_reauthenticated, loc.error_msg)
       THEN /\ CreationFailed(<<>>, error_with_hints(loc.error_msg, env, args.repo_name))
            /\ cmds' = cmds
       ELSE \E st \in AuthStatusOutcomes :
               /\ cmds' = Append(cmds, Ran(GhAuthStatus, st.rc, <<>>, st.output))
               /\ IF check_scopes(<<"repo">>, st.rc, st.output).has_scopes
                  THEN CreationFailed(<<>>, error_with_hints(loc.error_msg, env, args.repo_name))
                  ELSE /\ pc' = "offer_unset_token_and_reauth"
                       /\ UNCHANGED <<printed, ws, cleanups, exitCode>>
    /\ UNCHANGED <<inputs, ret, env, outdir, prompts, calls, loc, cr, result, exc>>

GhAuthLogout == <<"gh", "auth", "logout">>
GhAuthLogin == <<"gh", "auth", "login">>

\* _offer_unset_token_and_reauth, and what its answer leads to: the next
\* iteration (lines 323-325) or the end of the run (lines 327-336, 404-407).
\* eof: input() raises EOFError.
offer_unset_token_and_reauth ==
    /\ pc = "offer_unset_token_and_reauth"
    /\ \/ /\ Raise("EOFError", <<"EOF when reading a line">>)
          /\ UNCHANGED <<env, cmds, prompts, printed, ws, cleanups, exitCode, loc>>
       \/ \E answer \in Answers, logout \in {0, 1}, login \in {0, 1} :
             /\ prompts' = Append(prompts, [env_key |-> loc.env_key, answer |-> answer])
             /\ exc' = exc
             /\ IF ~consents(answer)
                THEN /\ logout = 0 /\ login = 0
                     /\ CreationFailed(<<>>, error_with_hints(loc.error_msg, env, args.repo_name))
                     /\ UNCHANGED <<env, cmds, loc>>
                ELSE /\ env' = [env EXCEPT ![loc.env_key] = None]
                     /\ cmds' = cmds \o <<Ran(GhAuthLogout, logout, <<>>, <<>>),
                                          Ran(GhAuthLogin, login, <<>>, <<>>)>>
                     /\ IF login # 0
                        THEN /\ CreationFailed(<<Line("stderr", "login_failed", <<>>)>>,
                                               error_with_hints(loc.error_msg, env', args.repo_name))
                             /\ loc' = loc
                        ELSE /\ loc' = [loc EXCEPT !.already_reauthenticated = TRUE,
                                                   !.env_key = detect_auth_token_env(env')]
                             /\ pc' = "check_github_prerequisites"
                             /\ UNCHANGED <<printed, ws, cleanups, exitCode>>
    /\ UNCHANGED <<inputs, ret, outdir, calls, cr, result>>


----------------------------------------------------------------------------
\* Finalization and the exception boundary

\* Lines 427-431.
finalize_workspace ==
    /\ pc = "finalize_workspace"
    /\ IF ~Truthy(args.output_dir)
       THEN /\ ws' = cleanup(ws)
            /\ cleanups' = cleanups + 1
            /\ pc' = "done"
            /\ exitCode' = 0
       ELSE /\ pc' = "handle_output_directory"
            /\ UNCHANGED <<ws, cleanups, exitCode>>
    /\ UNCHANGED <<inputs, ret, env, outdir, cmds, prompts, calls, printed, loc, cr, result, exc>>

CopyFailed_and_cleaned_up ==
    /\ printed' = printed \o <<Line("stderr", "traceback", <<>>),
                               Line("stderr", "error_saving_output", <<args.output_dir>>),
                               Line("stderr", "workspace_preserved", <<WORKSPACE>>)>>
    /\ pc' = "done"
    /\ exitCode' = 1
    /\ ws' = cleanup(ws)
    /\ cleanups' = cleanups + 1

\* Lines 205-209: the copy failed; the workspace is kept.
CopyFailed ==
    /\ printed' = printed \o <<Line("stderr", "traceback", <<>>),
                               Line("stderr", "error_saving_output", <<args.output_dir>>),
                               Line("stderr", "workspace_preserved", <<WORKSPACE>>)>>
    /\ pc' = "done"
    /\ exitCode' = 1
    /\ UNCHANGED <<ws, cleanups>>

\* _handle_output_directory.  shutil.rmtree fails on an output path that is a
\* file, and can fail on a directory it may not empty, which then stays;
\* shutil.copytree can fail before or after it created the destination.
handle_output_directory ==
    /\ pc = "handle_output_directory"
    /\ \/ /\ outdir \in {"file", "dir"}
          /\ outdir' = outdir
          /\ CopyFailed
       \/ /\ outdir # "file"
          /\ \E copied \in {"copy", "partial", "absent"} :
                /\ outdir' = copied
                /\ IF copied # "copy"
                   THEN CopyFailed
                   ELSE /\ ws' = cleanup(ws)
                        /\ cleanups' = cleanups + 1
                        /\ printed' = Append(printed, Line("stdout", "output_saved",
                                                           <<args.output_dir>>))
                        /\ pc' = "done"
                        /\ exitCode' = 0
    /\ UNCHANGED <<inputs, ret, env, cmds, prompts, calls, loc, cr, result, exc>>

Anticipated == {"FileNotFoundError", "ValueError", "RuntimeError"}

execute_template_creation_except_no_cleanup ==
    /\ pc = "except"
    /\ printed' = printed
          \o <<Line("stderr", IF exc.type \in Anticipated THEN "error" ELSE "unexpected_error",
                    exc.msg)>>
          \o (IF exc.type \notin Anticipated /\ args.verbose
              THEN <<Line("stderr", "traceback", <<>>)>> ELSE <<>>)
    /\ pc' = "done"
    /\ exitCode' = 1
    /\ UNCHANGED <<inputs, ret, env, ws, outdir, cmds, prompts, calls, cleanups, loc, cr, result,
                   exc>>

\* Lines 473-486: the two except clauses of _execute_template_creation.
execute_template_creation_except ==
    /\ pc = "except"
    /\ printed' = printed
          \o <<Line("stderr", IF exc.type \in Anticipated THEN "error" ELSE "unexpected_error",
                    exc.msg)>>
          \o (IF exc.type \notin Anticipated /\ args.verbose
              THEN <<Line("stderr", "traceback", <<>>)>> ELSE <<>>)
    /\ ws' = cleanup(ws)
    /\ cleanups' = cleanups + 1
    /\ pc' = "done"
    /\ exitCode' = 1
    /\ UNCHANGED <<inputs, ret, env, outdir, cmds, prompts, calls, loc, cr, result, exc>>

\* A direct call of build_create_command; the command is returned in result.output.
build_create_command_call ==
    /\ pc = "build_create_command"
    /\ result' = [NoResult EXCEPT !.output =
                     build_create_command(args.repo_name, ~args.private, args.template_repo,
                                          args.org, args.name, args.source_path)]
    /\ pc' = "done"
    /\ UNCHANGED <<inputs, ret, env, ws, outdir, cmds, prompts, calls, cleanups, printed, loc, cr,
                   exc, exitCode>>

Next ==
    \/ create_command
    \/ create_workspace
    \/ copy_exercise_files
    \/ copy_template_base_files
    \/ generate_readme
    \/ build_template_package
    \/ handle_repository_creation
    \/ check_github_prerequisites
    \/ create_repository
    \/ init_git_repo
    \/ commit_files_identity
    \/ commit_files_stage
    \/ commit_files_commit
    \/ execute_create
    \/ mark_repository_as_template
    \/ gh_repo_edit
    \/ create_github_repo_result
    \/ should_retry_with_reauth
    \/ offer_unset_token_and_reauth
    \/ finalize_workspace
    \/ handle_output_directory
    \/ execute_template_creation_except
    \/ build_create_command_call

Spec == Init /\ [][Next]_vars


----------------------------------------------------------------------------
\* Direct calls of single methods, as the unit tests make them.  arg.requests
\* lists the arguments of the calls a behaviour makes, in order; ret logs what
\* each call returned or raised.

NoArgs == [dry_run |-> FALSE, verbose |-> FALSE, output_dir |-> None, no_template |-> FALSE,
           org |-> None, private |-> FALSE, template_repo |-> None, name |-> None,
           repo_name |-> "test-repo", source_path |-> None]

Returns(value) == [raised |-> None, value |-> value]

Raises(e, msg) == [raised |-> e, value |-> msg]

\* The call being made: the next request not yet answered.
Request == arg.requests[Len(ret) + 1]

\* A direct call at pc = method is enabled while requests remain; after the last
\* one the behaviour is over.
Calling(method) == pc = method /\ entry = method /\ Len(ret) < Len(arg.requests)

AfterCall == pc' = IF Len(ret) + 1 = Len(arg.requests) THEN "done" ELSE pc

\* Commands a caller can hand to execute_command: an ordinary one, the empty
\* list, and one with a NUL character in an argument.
Commands == {<<"gh", "repo", "view", "test-repo">>, <<"gh", "api", "user">>, <<>>,
             <<"gh", "repo", "view", "\\0">>}

\* What subprocess.run(cmd, capture_output=True, text=True, check=False) does
\* before or instead of returning a CompletedProcess: "IndexError" for an empty
\* argument list, "ValueError" for an embedded NUL, "OSError" when the program
\* cannot be started, "UnicodeDecodeError" when the captured output is not
\* valid text, None when it returns.
subprocess_run_raises(cmd, started, decodable) ==
    IF cmd = <<>> THEN "IndexError"
    ELSE IF \E i \in DOMAIN cmd : cmd[i] = "\\0" THEN "ValueError"
    ELSE IF ~started THEN "OSError"
    ELSE IF ~decodable THEN "UnicodeDecodeError"
    ELSE None

\* Lines 82-94: only OSError and SubprocessError are caught.
execute_command_call ==
    /\ Calling("execute_command")
    /\ \E started \in BOOLEAN, decodable \in BOOLEAN, rc \in {0, 1, 128},
          out \in {<<>>, <<"{\"name\": \"test-repo\"}">>}, err \in {<<>>, <<"Error occurred">>} :
          LET cmd == Request
              e == subprocess_run_raises(cmd, started, decodable)
              code == IF e = None THEN rc ELSE -1
          IN /\ (e # None) => (rc = 0 /\ out = <<>> /\ err = <<>>)
             /\ (e \in {"IndexError", "ValueError"}) => (started /\ decodable)
             /\ (e = "OSError") => decodable
             /\ cmds' = IF e \in {"IndexError", "ValueError"} THEN cmds
                        ELSE Append(cmds, Ran(cmd, code, out, err))
             /\ ret' = Append(ret, IF e \in {None, "OSError"}
                                   THEN Returns(execute_command(code, out, err))
                                   ELSE Raises(e, <<>>))
    /\ AfterCall
    /\ UNCHANGED <<inputs, env, ws, outdir, prompts, calls, cleanups, printed, loc, cr,
                   result, exc, exitCode>>

\* The required_scopes arguments of the direct calls: a list, or nothing (None).
ScopeRequests ==
    {[given |-> FALSE, scopes |-> <<>>]}
    \cup [given : {TRUE},
          scopes : {<<>>, <<"repo">>, <<"repo", "gist">>, <<"workflow", "repo", "workflow">>}]

\* Lines 138-139: the default of required_scopes.
RequiredScopes(request) == IF request.given THEN request.scopes ELSE <<"repo">>

\* Lines 138-187.
check_scopes_call ==
    /\ Calling("check_scopes")
    /\ \E st \in AuthStatusOutcomes :
          LET required_scopes == RequiredScopes(Request)
          IN /\ cmds' = Append(cmds, Ran(GhAuthStatus, st.rc, <<>>, st.output))
             /\ ret' = Append(ret, Returns(check_scopes(required_scopes, st.rc, st.output)))
    /\ AfterCall
    /\ UNCHANGED <<inputs, env, ws, outdir, prompts, calls, cleanups, printed, loc, cr,
                   result, exc, exitCode>>

----------------------------------------------------------------------------
\* ExerciseSelector.  Exercise ids, notebook file names and glob patterns are
\* sequences of characters; ".ipynb" and ".txt" are single suffix tokens.

\* The characters of the model in the order of their code points.
CharOrder == <<"*", "/", "0", "1", "2", "9", "?", "_", "a", "e", "x">>

Ord(c) == CHOOSE i \in DOMAIN CharOrder : CharOrder[i] = c

\* a < b for Python strings: by the first differing character, a proper prefix first.
RECURSIVE StrLess(_, _)
StrLess(a, b) ==
    IF b = <<>> THEN FALSE
    ELSE IF a = <<>> THEN TRUE
    ELSE IF Head(a) = Head(b) THEN StrLess(Tail(a), Tail(b))
    ELSE Ord(Head(a)) < Ord(Head(b))

\* Inserts x into the sorted list after the elements not greater than it.
RECURSIVE Insert(_, _)
Insert(x, list) ==
    IF list = <<>> THEN <<x>>
    ELSE IF StrLess(x, Head(list)) THEN <<x>> \o list
    ELSE <<Head(list)>> \o Insert(x, Tail(list))

\* sorted(list): every element of the list, in ascending order.
RECURSIVE sorted(_)
sorted(list) ==
    IF list = <<>> THEN <<>> ELSE Insert(list[Len(list)], sorted(SubSeq(list, 1, Len(list) - 1)))

\* The elements of a set in some order (iteration over a Python set).
RECURSIVE SetToSeq(_)
SetToSeq(S) ==
    IF S = {} THEN <<>> ELSE LET x == CHOOSE x \in S : TRUE IN <<x>> \o SetToSeq(S \ {x})

in_iteration_order(exercises) == exercises

\* sorted(set(exercises)), the return value of the taxonomy scans.
sorted_set(exercises) == sorted(SetToSeq(SeqToSet(exercises)))

\* sorted(notebooks), the return value of select_by_notebooks (line 164).
sorted_notebooks(notebooks) == sorted(notebooks)

fnmatch_literal(name, pattern) == name = pattern

\* fnmatch.fnmatch(name, pattern) for patterns of literals, "*" and "?".
RECURSIVE fnmatch(_, _)
fnmatch(name, pattern) ==
    IF pattern = <<>> THEN name = <<>>
    ELSE IF Head(pattern) = "*"
    THEN \/ fnmatch(name, Tail(pattern))
         \/ (name # <<>> /\ fnmatch(Tail(name), pattern))
    ELSE /\ name # <<>>
         /\ Head(pattern) = "?" \/ Head(pattern) = Head(name)
         /\ fnmatch(Tail(name), Tail(pattern))

StartsWithAnything(name) == TRUE

\* str.startswith("ex")
StartsWithEx(name) == Len(name) >= 2 /\ name[1] = "e" /\ name[2] = "x"

\* Every order in which a directory scan can yield the members of S.
Orders(S) == {o \in [1..Cardinality(S) -> S] : \A x \in S : \E i \in DOMAIN o : o[i] = x}

\* The lists made of one list from each set, concatenated in order.
RECURSIVE CatAll(_)
CatAll(sets) ==
    IF sets = <<>> THEN {<<>>}
    ELSE {a \o b : a \in Head(sets), b \in CatAll(Tail(sets))}

\* validate_construct_name: a closed, case-sensitive enumeration.
validate_construct_name(construct) ==
    construct \in {"sequence", "selection", "iteration", "data_types", "lists", "dictionaries",
                   "functions", "file_handling", "exceptions", "libraries", "oop"}

\* validate_type_name: a closed, case-sensitive enumeration.
validate_type_name(type_name) == type_name \in {"debug", "modify", "make"}

\* validate_notebook_pattern: not empty, no path separator.
validate_notebook_pattern(pattern) ==
    pattern # <<>> /\ \A i \in DOMAIN pattern : pattern[i] # "/"

\* The type directories of exercises/<construct>/ (type_dir.is_dir()).
TypeDirs(construct) ==
    {t.type : t \in {x \in tree.types : x.construct = construct /\ x.is_dir}}

\* Lines 69-71: the names a scan of exercises/<construct>/<type>/ appends.
ExerciseNames(construct, type_name) ==
    {x.name : x \in {y \in tree.entries : /\ y.construct = construct /\ y.type = type_name
                                          /\ y.is_dir /\ StartsWithEx(y.name)}}

\* Lines 64-71: the lists a scan of one construct directory can append.
ConstructListings(construct) ==
    IF ~(tree.exercises_dir /\ construct \in tree.constructs) THEN {<<>>}
    ELSE UNION {CatAll([i \in DOMAIN o |-> Orders(ExerciseNames(construct, o[i]))]) :
                   o \in Orders(TypeDirs(construct))}

\* The name the validation loop stops at: the first one whose check fails.
FirstInvalid(names, valid) ==
    names[CHOOSE i \in DOMAIN names : ~valid[i] /\ \A j \in 1..(i - 1) : valid[j]]

\* Lines 53-73: what select_by_construct(constructs) can return or raise.
select_by_construct_outcomes(constructs) ==
    IF constructs = <<>>
    THEN {Raises("ValueError", <<"At least one construct must be specified">>)}
    ELSE IF \E i \in DOMAIN constructs : ~validate_construct_name(constructs[i])
    THEN {Raises("ValueError",
                 <<"Invalid construct: ",
                   FirstInvalid(constructs, [i \in DOMAIN constructs |->
                                                validate_construct_name(constructs[i])])>>)}
    ELSE {Returns(sorted_set(exercises)) :
             exercises \in CatAll([i \in DOMAIN constructs |->
                                     ConstructListings(constructs[i])])}

select_by_construct ==
    /\ Calling("select_by_construct")
    /\ \E outcome \in select_by_construct_outcomes(Request) : ret' = Append(ret, outcome)
    /\ AfterCall
    /\ UNCHANGED <<inputs, env, ws, outdir, cmds, prompts, calls, cleanups, printed, loc, cr,
                   result, exc, exitCode>>

\* Lines 97-103: the lists a scan of the whole taxonomy can append for the types.
TypeListings(types) ==
    UNION {CatAll([i \in DOMAIN oc |->
                     UNION {CatAll([k \in DOMAIN ot |->
                                      IF \E j \in DOMAIN types : types[j] = ot[k]
                                      THEN Orders(ExerciseNames(oc[i], ot[k]))
                                      ELSE {<<>>}]) :
                               ot \in Orders(TypeDirs(oc[i]))}]) :
              oc \in Orders(tree.constructs)}

select_by_type_scan_first ==
    /\ Calling("select_by_type")
    /\ LET types == Request
       IN IF types = <<>>
          THEN ret' = Append(ret, Raises("ValueError", <<"At least one type must be specified">>))
          ELSE IF ~tree.exercises_dir
          THEN ret' = Append(ret, Raises("FileNotFoundError", <<"exercises">>))
          ELSE IF \E i \in DOMAIN types : ~validate_type_name(types[i])
          THEN ret' = Append(ret, Raises("ValueError", <<"Invalid type: ">>))
          ELSE \E exercises \in TypeListings(types) :
                  ret' = Append(ret, Returns(sorted_set(exercises)))
    /\ AfterCall
    /\ UNCHANGED <<inputs, env, ws, outdir, cmds, prompts, calls, cleanups, printed, loc, cr,
                   result, exc, exitCode>>

\* Lines 87-105: what select_by_type(types) can return or raise.
\* exercises_dir.iterdir() raises when exercises/ does not exist.
select_by_type_outcomes(types) ==
    IF types = <<>>
    THEN {Raises("ValueError", <<"At least one type must be specified">>)}
    ELSE IF \E i \in DOMAIN types : ~validate_type_name(types[i])
    THEN {Raises("ValueError",
                 <<"Invalid type: ", FirstInvalid(types, [i \in DOMAIN types |->
                                                            validate_type_name(types[i])])>>)}
    ELSE IF ~tree.exercises_dir
    THEN {Raises("FileNotFoundError", <<"exercises">>)}
    ELSE {Returns(sorted_set(exercises)) : exercises \in TypeListings(types)}

select_by_type ==
    /\ Calling("select_by_type")
    /\ \E outcome \in select_by_type_outcomes(Request) : ret' = Append(ret, outcome)
    /\ AfterCall
    /\ UNCHANGED <<inputs, env, ws, outdir, cmds, prompts, calls, cleanups, printed, loc, cr,
                   result, exc, exitCode>>

\* type_dir.exists() (line 134)
TypeExists(construct, type_name) ==
    /\ tree.exercises_dir /\ construct \in tree.constructs
    /\ \E t \in tree.types : t.construct = construct /\ t.type = type_name

\* Lines 129-137: the (construct, type) pairs in the order the loops visit them.
Pairs(constructs, types) ==
    [n \in 1..(Len(constructs) * Len(types)) |->
        [construct |-> constructs[((n - 1) \div Len(types)) + 1],
         type |-> types[((n - 1) % Len(types)) + 1]]]

\* Lines 120-139: what select_by_construct_and_type(constructs, types) can
\* return or raise.  type_dir.iterdir() raises when the path is not a directory.
select_by_construct_and_type_outcomes(constructs, types) ==
    LET pairs == Pairs(constructs, types)
    IN IF \E i \in DOMAIN constructs : ~validate_construct_name(constructs[i])
       THEN {Raises("ValueError",
                    <<"Invalid construct: ",
                      FirstInvalid(constructs, [i \in DOMAIN constructs |->
                                                   validate_construct_name(constructs[i])])>>)}
       ELSE IF \E i \in DOMAIN types : ~validate_type_name(types[i])
       THEN {Raises("ValueError",
                    <<"Invalid type: ", FirstInvalid(types, [i \in DOMAIN types |->
                                                               validate_type_name(types[i])])>>)}
       ELSE IF \E i \in DOMAIN pairs :
                  /\ TypeExists(pairs[i].construct, pairs[i].type)
                  /\ pairs[i].type \notin TypeDirs(pairs[i].construct)
       THEN {Raises("NotADirectoryError", <<"exercises">>)}
       ELSE {Returns(sorted_set(exercises)) :
                exercises \in CatAll([i \in DOMAIN pairs |->
                                        IF TypeExists(pairs[i].construct, pairs[i].type)
                                        THEN Orders(ExerciseNames(pairs[i].construct,
                                                                  pairs[i].type))
                                        ELSE {<<>>}])}

select_by_construct_and_type ==
    /\ Calling("select_by_construct_and_type")
    /\ \E outcome \in select_by_construct_and_type_outcomes(Request.constructs, Request.types) :
          ret' = Append(ret, outcome)
    /\ AfterCall
    /\ UNCHANGED <<inputs, env, ws, outdir, cmds, prompts, calls, cleanups, printed, loc, cr,
                   result, exc, exitCode>>

\* Path.stem of a file name: the name without its suffix.
Stem(file) == SubSeq(file, 1, Len(file) - 1)

get_all_notebooks_any_file ==
    IF ~tree.notebooks_dir THEN {<<>>} ELSE Orders({Stem(f) : f \in tree.notebooks})

\* get_all_notebooks (lines 34-39): the stems of notebooks/ex*.ipynb in the
\* order the glob yields them; nothing when notebooks/ does not exist.
get_all_notebooks ==
    IF ~tree.notebooks_dir THEN {<<>>}
    ELSE Orders({Stem(f) : f \in {g \in tree.notebooks :
                                     fnmatch(g, <<"e", "x", "*", ".ipynb">>)}})

FirstMissing(notebooks, available) ==
    notebooks[CHOOSE i \in DOMAIN notebooks :
                 /\ notebooks[i] \notin SeqToSet(available)
                 /\ \A j \in 1..(i - 1) : notebooks[j] \in SeqToSet(available)]

\* Lines 153-164: what select_by_notebooks(notebooks) can return or raise.
select_by_notebooks_outcomes(notebooks) ==
    IF notebooks = <<>>
    THEN {Raises("ValueError", <<"At least one notebook must be specified">>)}
    ELSE {IF \E i \in DOMAIN notebooks : notebooks[i] \notin SeqToSet(available)
          THEN Raises("ValueError", <<"Notebook not found: ", FirstMissing(notebooks, available)>>)
          ELSE Returns(sorted_notebooks(notebooks)) :
             available \in get_all_notebooks}

select_by_notebooks ==
    /\ Calling("select_by_notebooks")
    /\ \E outcome \in select_by_notebooks_outcomes(Request) : ret' = Append(ret, outcome)
    /\ AfterCall
    /\ UNCHANGED <<inputs, env, ws, outdir, cmds, prompts, calls, cleanups, printed, loc, cr,
                   result, exc, exitCode>>

\* Lines 178-185: what select_by_pattern(pattern) can return or raise.
select_by_pattern_outcomes(pattern) ==
    IF ~validate_notebook_pattern(pattern)
    THEN {Raises("ValueError", <<"Invalid pattern: ", pattern>>)}
    ELSE {Returns(sorted(SelectSeq(all_notebooks, LAMBDA nb : fnmatch(nb, pattern)))) :
             all_notebooks \in get_all_notebooks}

select_by_pattern ==
    /\ Calling("select_by_pattern")
    /\ \E outcome \in select_by_pattern_outcomes(Request) : ret' = Append(ret, outcome)
    /\ AfterCall
    /\ UNCHANGED <<inputs, env, ws, outdir, cmds, prompts, calls, cleanups, printed, loc, cr,
                   result, exc, exitCode>>

----------------------------------------------------------------------------
\* The selection of the command line (cli.py).  An option that was not given
\* holds the empty list.

\* "*" in pattern or "?" in pattern or "[" in pattern (line 42).
IsGlob(pattern) == \E i \in DOMAIN pattern : pattern[i] \in {"*", "?", "["}

\* Lines 40-46: each --notebooks entry is looked up on its own, as a pattern or
\* as one id, and the lists are appended in the order of the entries; the first
\* lookup that raises ends the loop.
RECURSIVE cli_select_by_notebooks(_)
cli_select_by_notebooks(notebooks) ==
    IF notebooks = <<>> THEN {Returns(<<>>)}
    ELSE LET pattern == Head(notebooks)
             found == IF IsGlob(pattern) THEN select_by_pattern_outcomes(pattern)
                      ELSE select_by_notebooks_outcomes(<<pattern>>)
         IN UNION {IF f.raised # None THEN {f}
                   ELSE {IF rest.raised # None THEN rest ELSE Returns(f.value \o rest.value) :
                            rest \in cli_select_by_notebooks(Tail(notebooks))} :
                      f \in found}

\* Lines 62-71: what _select_exercises(args, selector) can return or raise.
select_exercises_outcomes(a) ==
    IF a.notebooks # <<>> THEN cli_select_by_notebooks(a.notebooks)
    ELSE IF a.construct # <<>> /\ a.type # <<>>
    THEN select_by_construct_and_type_outcomes(a.construct, a.type)
    ELSE IF a.construct # <<>> THEN select_by_construct_outcomes(a.construct)
    ELSE IF a.type # <<>> THEN select_by_type_outcomes(a.type)
    ELSE {Raises("ValueError", <<"Must specify --construct, --type, or --notebooks">>)}

select_exercises ==
    /\ Calling("select_exercises")
    /\ \E outcome \in select_exercises_outcomes(Request) : ret' = Append(ret, outcome)
    /\ AfterCall
    /\ UNCHANGED <<inputs, env, ws, outdir, cmds, prompts, calls, cleanups, printed, loc, cr,
                   result, exc, exitCode>>

----------------------------------------------------------------------------
\* FileCollector.  A path is a text; a role without a file holds NoPath.

NoPath == <<>>

notebook_path(exercise_id) == <<"notebooks/">> \o exercise_id \o <<".ipynb">>
solution_path(exercise_id) == <<"notebooks/solutions/">> \o exercise_id \o <<".ipynb">>
test_path(exercise_id) == <<"tests/test_">> \o exercise_id \o <<".py">>
metadata_path(readme) ==
    <<"exercises/", readme.construct, "/", readme.type, "/">> \o readme.name \o <<"/README.md">>

\* The source repository has a file at the path of the role.
HasNotebook(exercise_id) == tree.notebooks_dir /\ (exercise_id \o <<".ipynb">>) \in tree.notebooks
HasSolution(exercise_id) == tree.notebooks_dir /\ (exercise_id \o <<".ipynb">>) \in tree.solutions
HasTest(exercise_id) == (<<"test_">> \o exercise_id \o <<".py">>) \in tree.tests

\* The taxonomy READMEs of the exercise: one for each exercise directory of that
\* name that holds a README.md.
Readmes(exercise_id) ==
    {r \in tree.readmes :
        /\ tree.exercises_dir
        /\ r.name = exercise_id
        /\ \E x \in tree.entries :
              /\ x.construct = r.construct /\ x.type = r.type /\ x.name = r.name /\ x.is_dir}

\* The metadata role: the README of a taxonomy directory of the exercise, or no path.
Metadata(exercise_id) ==
    IF Readmes(exercise_id) = {} THEN {NoPath}
    ELSE {metadata_path(r) : r \in Readmes(exercise_id)}

\* The FileSet of an exercise whose required files exist.
Collect(exercise_id, metadata) ==
    Returns([notebook |-> notebook_path(exercise_id),
             solution |-> IF HasSolution(exercise_id) THEN solution_path(exercise_id)
                          ELSE NoPath,
             test |-> test_path(exercise_id),
             metadata |-> metadata])

collect_files_notebook_only(exercise_id) ==
    IF ~HasNotebook(exercise_id)
    THEN {Raises("FileNotFoundError", <<"Student notebook not found: ">> \o exercise_id)}
    ELSE {Collect(exercise_id, m) : m \in Metadata(exercise_id)}

\* collect_files(exercise_id): what the call can return or raise.
collect_files(exercise_id) ==
    IF ~HasNotebook(exercise_id)
    THEN {Raises("FileNotFoundError", <<"Student notebook not found: ">> \o exercise_id)}
    ELSE IF ~HasTest(exercise_id)
    THEN {Raises("FileNotFoundError", <<"Test file not found: ">> \o exercise_id)}
    ELSE {Collect(exercise_id, m) : m \in Metadata(exercise_id)}

collect_files_call ==
    /\ Calling("collect_files")
    /\ \E r \in collect_files(Request) : ret' = Append(ret, r)
    /\ AfterCall
    /\ UNCHANGED <<inputs, env, ws, outdir, cmds, prompts, calls, cleanups, printed, loc, cr,
                   result, exc, exitCode>>

----------------------------------------------------------------------------
\* TemplatePackager called directly

\* validate_package(workspace) called on a workspace; in a "package" behaviour
\* the caller then deletes a required file and validates again.
validate_package_call ==
    /\ pc = "validate_package"
    /\ entry \in {"validate_package", "package"}
    /\ ret' = Append(ret, Returns(validate_package(ws.files)))
    /\ pc' = IF entry = "package" /\ ret = <<>> THEN "remove_required_file" ELSE "done"
    /\ UNCHANGED <<inputs, env, ws, outdir, cmds, prompts, calls, cleanups, printed, loc, cr,
                   result, exc, exitCode>>

\* The caller deletes one of the required files of the packaged workspace.
remove_required_file ==
    /\ pc = "remove_required_file"
    /\ \E f \in RequiredFiles :
          /\ f \in ws.files
          /\ ws' = [ws EXCEPT !.files = @ \ {f}]
    /\ pc' = "validate_package"
    /\ UNCHANGED <<inputs, ret, env, outdir, cmds, prompts, calls, cleanups, printed, loc, cr,
                   result, exc, exitCode>>

\* cleanup(workspace) called directly, as often as arg.requests asks.
cleanup_call ==
    /\ Calling("cleanup")
    /\ ws' = cleanup(ws)
    /\ cleanups' = cleanups + 1
    /\ ret' = Append(ret, Returns(None))
    /\ AfterCall
    /\ UNCHANGED <<inputs, env, outdir, cmds, prompts, calls, printed, loc, cr,
                   result, exc, exitCode>>

\* The most calls of cleanup in one behaviour.
MaxCleanups == 3

\* What can be at the paths validate_package looks at: each required file as a
\* file or as a directory, each required directory as a directory or as a file.
WorkspacePaths ==
    {"pyproject.toml", "pytest.ini", "README.md", "README.md/", "tests/notebook_grader.py",
     "notebooks/", "notebooks", "tests/", "tests"}

\* The sets of paths a directory can hold: one thing per path, and a file only
\* inside a directory.
Workspaces ==
    {files \in SUBSET WorkspacePaths :
        /\ ~({"notebooks/", "notebooks"} \subseteq files)
        /\ ~({"tests/", "tests"} \subseteq files)
        /\ ~({"README.md/", "README.md"} \subseteq files)
        /\ "tests/notebook_grader.py" \in files => "tests/" \in files}

\* The files mappings of the direct calls of copy_exercise_files.
FileMappings ==
    {<<>>,
     <<FileSet("ex001_sanity", TRUE, TRUE, TRUE, FALSE)>>,
     <<FileSet("ex001_sanity", TRUE, FALSE, TRUE, TRUE)>>,
     <<FileSet("ex001_sanity", FALSE, TRUE, FALSE, FALSE)>>,
     <<FileSet("ex001_sanity", FALSE, FALSE, TRUE, FALSE)>>,
     <<FileSet("ex001_sanity", TRUE, TRUE, TRUE, FALSE),
       FileSet("ex002_sequence_modify_basics", TRUE, FALSE, TRUE, FALSE)>>}

\* The longest series of direct calls in one behaviour.
MaxRequests == 2

\* Every series of 1..MaxRequests requests drawn from S.
Series(S) == UNION {[1..n -> S] : n \in 1..MaxRequests}

UnitEntries ==
    {"execute_command", "check_scopes", "select_by_construct", "select_by_type",
     "select_by_construct_and_type", "select_by_notebooks", "select_by_pattern",
     "validate_package", "package", "cleanup", "collect_files", "select_exercises"}

UnitCommon ==
    /\ entry \in UnitEntries
    /\ InitCommon
    /\ args = NoArgs
    /\ env = [k \in {"GITHUB_TOKEN", "GH_TOKEN"} |-> None]
    /\ prepared = "ok"
    /\ outdir = "absent"
    /\ cr = NoFrame
    /\ pc = IF entry = "package" THEN "create_workspace" ELSE entry

ClientInit ==
    /\ UnitCommon
    /\ repo = FullRepo
    /\ tree = NoTree
    /\ ws = [created |-> FALSE, exists |-> FALSE, files |-> {}]
    /\ \/ entry = "execute_command" /\ arg \in [requests : Series(Commands)]
       \/ entry = "check_scopes" /\ arg \in [requests : Series(ScopeRequests)]

Ex1 == <<"e", "x", "1">>
Ex2 == <<"e", "x", "2">>
Ex9 == <<"e", "x", "9">>
Ex10 == <<"e", "x", "1", "0">>

\* A taxonomy: ex1 under two types of sequence, ex2 beside it, ex10 under
\* selection and under iteration; a directory that is no exercise, a file named
\* like one, a file where a type directory could be, an empty type directory.
\* notebooks/ holds the three notebooks, a notebook that is not ex-prefixed
\* and a file that is no notebook.
FullTree ==
    [exercises_dir |-> TRUE,
     constructs |-> {"sequence", "selection", "iteration", "functions"},
     types |-> {[construct |-> "sequence", type |-> "debug", is_dir |-> TRUE],
                [construct |-> "sequence", type |-> "modify", is_dir |-> TRUE],
                [construct |-> "sequence", type |-> "make", is_dir |-> FALSE],
                [construct |-> "selection", type |-> "debug", is_dir |-> TRUE],
                [construct |-> "selection", type |-> "make", is_dir |-> TRUE],
                [construct |-> "iteration", type |-> "modify", is_dir |-> TRUE]},
     entries |-> {[construct |-> "sequence", type |-> "debug", name |-> Ex1, is_dir |-> TRUE],
                  [construct |-> "sequence", type |-> "debug", name |-> Ex2, is_dir |-> TRUE],
                  [construct |-> "sequence", type |-> "modify", name |-> Ex1, is_dir |-> TRUE],
                  [construct |-> "sequence", type |-> "modify", name |-> Ex9, is_dir |-> FALSE],
                  [construct |-> "selection", type |-> "debug", name |-> Ex10, is_dir |-> TRUE],
                  [construct |-> "selection", type |-> "debug", name |-> <<"_", "a">>,
                   is_dir |-> TRUE],
                  [construct |-> "iteration", type |-> "modify", name |-> Ex10, is_dir |-> TRUE]},
     notebooks_dir |-> TRUE,
     notebooks |-> {Ex1 \o <<".ipynb">>, Ex2 \o <<".ipynb">>, Ex10 \o <<".ipynb">>,
                    <<"a", "1", ".ipynb">>, Ex9 \o <<".txt">>},
     solutions |-> {Ex1 \o <<".ipynb">>, Ex2 \o <<".ipynb">>},
     tests |-> {<<"test_">> \o Ex1 \o <<".py">>, <<"test_">> \o Ex2 \o <<".py">>,
                <<"test_">> \o Ex10 \o <<".py">>},
     readmes |-> {[construct |-> "sequence", type |-> "debug", name |-> Ex1],
                  [construct |-> "sequence", type |-> "modify", name |-> Ex1],
                  [construct |-> "selection", type |-> "debug", name |-> Ex10]}]

\* The taxonomies of the model: the full one, one with empty directories, none.
\* A taxonomy whose directory names differ in what follows "ex": three digits,
\* two digits, no digit, and a name that only holds "ex001".
NumberedTree ==
    [NoTree EXCEPT
        !.exercises_dir = TRUE,
        !.constructs = {"sequence"},
        !.types = {[construct |-> "sequence", type |-> "make", is_dir |-> TRUE]},
        !.entries = {[construct |-> "sequence", type |-> "make", name |-> n, is_dir |-> TRUE] :
                        n \in {<<"e", "x", "0", "0", "1">>, <<"e", "x", "0", "1">>,
                                <<"e", "x", "a">>, <<"a", "_", "e", "x", "0", "0", "1">>}}]

\* A taxonomy that holds every exercise once: ex1 and ex2 under sequence/debug,
\* ex9 under sequence/modify, ex10 under selection/debug; selection/make is an
\* empty directory, iteration/ holds a regular file named make and nothing else.
PlacedTree ==
    [NoTree EXCEPT
        !.exercises_dir = TRUE,
        !.constructs = {"sequence", "selection", "iteration"},
        !.types = {[construct |-> "sequence", type |-> "debug", is_dir |-> TRUE],
                   [construct |-> "sequence", type |-> "modify", is_dir |-> TRUE],
                   [construct |-> "selection", type |-> "debug", is_dir |-> TRUE],
                   [construct |-> "selection", type |-> "make", is_dir |-> TRUE],
                   [construct |-> "iteration", type |-> "make", is_dir |-> FALSE]},
        !.entries = {[construct |-> "sequence", type |-> "debug", name |-> Ex1, is_dir |-> TRUE],
                     [construct |-> "sequence", type |-> "debug", name |-> Ex2, is_dir |-> TRUE],
                     [construct |-> "sequence", type |-> "modify", name |-> Ex9, is_dir |-> TRUE],
                     [construct |-> "selection", type |-> "debug", name |-> Ex10,
                      is_dir |-> TRUE]}]

Trees ==
    {FullTree, NumberedTree, PlacedTree,
     [NoTree EXCEPT !.exercises_dir = TRUE, !.constructs = {"sequence"}, !.notebooks_dir = TRUE],
     NoTree}

ConstructLists == {<<>>, <<"sequence">>, <<"selection">>, <<"iteration">>, <<"Sequence">>}

TypeLists == {<<>>, <<"debug">>, <<"modify">>, <<"make">>, <<"Debug">>}

NotebookLists ==
    {<<>>, <<Ex1>>, <<Ex2, Ex1>>, <<Ex10, Ex2, Ex1>>, <<Ex1, Ex1>>, <<Ex2, Ex9>>, <<<<"a", "1">>>>}

Patterns ==
    {<<>>, <<"e", "x", "*">>, <<"e", "x", "1", "?">>, <<"e", "x", "9", "*">>, <<"*">>,
     <<"?", "x", "1">>, Ex1, <<"a", "/", "e", "x", "1">>, <<"/">>}

\* The --notebooks entries of a command line: ids, patterns, both, the same id
\* twice, ids out of order, an id and a pattern that matches it, a missing id.
NotebookArguments ==
    {<<>>, <<Ex1>>, <<Ex1, Ex2>>, <<Ex2, Ex1>>, <<Ex1, Ex1>>, <<<<"e", "x", "*">>>>,
     <<<<"e", "x", "1", "?">>, <<"e", "x", "*">>>>, <<Ex1, <<"e", "x", "*">>>>,
     <<Ex2, Ex9>>, <<<<"e", "x", "9", "*">>>>}

\* The calls one behaviour makes with two argument lists: each alone, both
\* together, and the first again.
Experiment(a, b) == <<a, b, a \o b, a>>

SelectorInit ==
    /\ UnitCommon
    /\ repo = FullRepo
    /\ tree \in Trees
    /\ ws = [created |-> FALSE, exists |-> FALSE, files |-> {}]
    /\ \/ /\ entry = "select_by_construct"
          /\ arg \in {[requests |-> Experiment(a, b)] : a \in ConstructLists, b \in ConstructLists}
       \/ /\ entry = "select_by_type"
          /\ arg \in {[requests |-> Experiment(a, b)] : a \in TypeLists, b \in TypeLists}
       \/ /\ entry = "select_by_construct_and_type"
          /\ arg \in {[requests |-> <<[constructs |-> c, types |-> t],
                                      [constructs |-> c \o c, types |-> t \o t]>>] :
                          c \in ConstructLists \cup {<<"sequence", "selection">>},
                          t \in TypeLists \cup {<<"modify", "debug">>}}
       \/ /\ entry = "select_by_notebooks"
          /\ arg \in {[requests |-> <<a, b>>] : a \in NotebookLists, b \in NotebookLists}
       \/ /\ entry = "select_by_pattern"
          /\ arg \in {[requests |-> <<a, b>>] : a \in Patterns, b \in Patterns}
       \/ /\ entry = "select_exercises"
          /\ arg \in {[requests |-> <<a>>] :
                          a \in [notebooks : NotebookArguments,
                                 construct : {<<>>, <<"sequence">>, <<"selection", "sequence">>,
                                              <<"Sequence">>},
                                 type : {<<>>, <<"debug">>, <<"modify", "debug">>, <<"make">>}]}

\* Source repositories for the collector: ex1 with each of its four roles
\* present or absent, ex2 complete but without a taxonomy README, ex10 with a
\* notebook and a test only, ex9 nowhere.
CollectorTrees ==
    {[FullTree EXCEPT
        !.notebooks = IF n THEN @ ELSE @ \ {Ex1 \o <<".ipynb">>},
        !.solutions = IF s THEN @ ELSE @ \ {Ex1 \o <<".ipynb">>},
        !.tests = IF t THEN @ ELSE @ \ {<<"test_">> \o Ex1 \o <<".py">>},
        !.readmes = {r \in @ : r.name # Ex10 /\ (m \/ r.name # Ex1)}] :
     n \in BOOLEAN, s \in BOOLEAN, t \in BOOLEAN, m \in BOOLEAN}

CollectorInit ==
    /\ UnitCommon
    /\ entry = "collect_files"
    /\ repo = FullRepo
    /\ tree \in CollectorTrees
    /\ ws = [created |-> FALSE, exists |-> FALSE, files |-> {}]
    /\ arg \in [requests : Series({Ex1, Ex2, Ex9, Ex10})]

PackagerInit ==
    /\ UnitCommon
    /\ tree = NoTree
    /\ \/ /\ entry = "validate_package"
          /\ repo = FullRepo
          /\ arg = NoArg
          /\ \/ \E files \in Workspaces : ws = [created |-> TRUE, exists |-> TRUE, files |-> files]
             \/ ws = [created |-> TRUE, exists |-> FALSE, files |-> {}]
       \/ /\ entry = "package"
          /\ repo \in Repos
          /\ arg \in [requests : {<<>>}, files : FileMappings]
          /\ ws = [created |-> FALSE, exists |-> FALSE, files |-> {}]
       \/ /\ entry = "cleanup"
          /\ repo = FullRepo
          /\ arg \in {[requests |-> [i \in 1..n |-> WORKSPACE]] : n \in 1..MaxCleanups}
          /\ \/ \E files \in {{}, RequiredFiles \cup RequiredDirs} :
                   ws = [created |-> TRUE, exists |-> TRUE, files |-> files]
             \/ ws = [created |-> TRUE, exists |-> FALSE, files |-> {}]

UnitInit ==
    \/ ClientInit
    \/ SelectorInit
    \/ PackagerInit
    \/ CollectorInit

UnitNext ==
    \/ execute_command_call
    \/ check_scopes_call
    \/ select_by_construct
    \/ select_by_type
    \/ select_by_construct_and_type
    \/ select_by_notebooks
    \/ select_by_pattern
    \/ select_exercises
    \/ create_workspace
    \/ copy_exercise_files
    \/ copy_template_base_files
    \/ generate_readme
    \/ validate_package_call
    \/ remove_required_file
    \/ cleanup_call
    \/ collect_files_call

UnitSpec == UnitInit /\ [][UnitNext]_vars

----------------------------------------------------------------------------
\* Properties of the create workflow

CreateRun == entry = "create_command"

Returned == pc = "done"

\* The copy to --output-dir failed (lines 205-209).
CopyFailure == \E i \in DOMAIN printed : printed[i].kind = "error_saving_output"

\* The source repository holds everything validate_package requires.
PackageBuilds ==
    /\ repo.template_dir
    /\ {"pyproject.toml", "pytest.ini"} \subseteq repo.template_files
    /\ repo.grader

C3_AtMostOneRetry ==
    CreateRun =>
        /\ Len(calls) <= 2
        /\ Len(calls) = 2 =>
              pc \notin {"check_github_prerequisites", "offer_unset_token_and_reauth"}
        /\ (Returned /\ Len(calls) = 2 /\ calls[2].returned /\ ~calls[2].result.success)
              => exitCode = 1

C3_Witness ==
    /\ CreateRun /\ Returned /\ Len(calls) = 2
    /\ calls[2].returned /\ ~calls[2].result.success /\ exitCode = 1
    /\ is_integration_permission_error(calls[2].result.error)

\* The re-authentication between the two attempts: the scope re-check that
\* reported missing scopes, the logout and the login, logged in this order.
ReauthAt(i) ==
    /\ i >= 3
    /\ cmds[i].cmd = GhAuthLogin
    /\ cmds[i - 1].cmd = GhAuthLogout
    /\ cmds[i - 2].cmd = GhAuthStatus
    /\ ~(cmds[i - 2].rc = 0 /\ "repo" \in SeqToSet(ParseScopes(cmds[i - 2].stderr)))

PatternError(error) ==
    /\ Contains(Lower(error), "resource not accessible by integration")
    /\ Contains(Lower(error), "createrepository")

Consent(answer) == Lower(Strip(answer)) \in {<<"y">>, <<"yes">>}

\* The scenario of C4: the first call failed with the integration-permission
\* pattern, a token variable was set, the re-check reported missing scopes, the
\* user consented, the login succeeded and the second call succeeded.
RetryScenario ==
    /\ CreateRun /\ Returned
    /\ Len(calls) >= 2
    /\ calls[1].returned /\ ~calls[1].result.success /\ PatternError(calls[1].result.error)
    /\ Len(prompts) >= 1 /\ Truthy(prompts[1].env_key) /\ Consent(prompts[1].answer)
    /\ \E i \in DOMAIN cmds : ReauthAt(i) /\ cmds[i].rc = 0
    /\ calls[2].returned /\ calls[2].result.success

\* C4 (as stated): in the retry scenario the run returns exit code 0 and
\* create_repository was invoked exactly twice, first with
\* skip_git_operations=False and then with skip_git_operations=True.
C4_RetrySucceeds ==
    RetryScenario =>
        /\ exitCode = 0
        /\ Len(calls) = 2
        /\ ~calls[1].skip_git_operations
        /\ calls[2].skip_git_operations

\* C4 (amended): in the retry scenario create_repository was invoked exactly
\* twice, first with skip_git_operations=False and then with
\* skip_git_operations=True, and the run returns exit code 0 unless the copy to
\* --output-dir fails, in which case it returns 1.
C4_RetrySucceedsUnlessCopyFails ==
    RetryScenario =>
        /\ exitCode = (IF CopyFailure THEN 1 ELSE 0)
        /\ Len(calls) = 2
        /\ ~calls[1].skip_git_operations
        /\ calls[2].skip_git_operations

C4_Witness ==
    RetryScenario /\ exitCode = 0 /\ Len(calls) = 2 /\ ~Truthy(args.output_dir)

\* C5: a second create_repository call is made only if the first call failed
\* with an error text holding both patterns (case-insensitively), a token
\* variable was set when the create step started, the scope re-check reported
\* has_scopes=False, the user answered y or yes and `gh auth login` exited 0;
\* a run whose first call failed and that made no second call returns 1.
C5_RetryOnlyWhenAllHold ==
    CreateRun =>
        /\ Len(calls) >= 2 =>
              /\ calls[1].returned /\ ~calls[1].result.success
              /\ PatternError(IF calls[1].result.error # <<>> THEN calls[1].result.error
                              ELSE <<"Unknown error">>)
              /\ Len(prompts) = 1
              /\ prompts[1].env_key \in {"GITHUB_TOKEN", "GH_TOKEN"}
              /\ Consent(prompts[1].answer)
              /\ \E i \in 1..calls[2].at : ReauthAt(i) /\ cmds[i].rc = 0
        /\ (Returned /\ Len(calls) = 1 /\ ~calls[1].result.success) =>
              exitCode = 1

C5_Witness ==
    /\ CreateRun /\ Returned /\ Len(calls) = 1 /\ calls[1].returned
    /\ PatternError(calls[1].result.error)
    /\ Len(prompts) = 1 /\ Consent(prompts[1].answer)
    /\ \E i \in DOMAIN cmds : ReauthAt(i) /\ cmds[i].rc # 0
    /\ exitCode = 1


----------------------------------------------------------------------------
\* Properties of the host client

\* The prerequisite check logged at cmds[i] (`gh --version`) and, when gh is
\* installed, cmds[i + 1] (`gh auth status`) found everything it needs.
PrerequisitesMetAt(i) ==
    /\ i >= 1 /\ i + 1 <= Len(cmds)
    /\ cmds[i].cmd = GhVersion /\ cmds[i].rc = 0
    /\ cmds[i + 1].cmd = GhAuthStatus /\ cmds[i + 1].rc = 0
    /\ "repo" \in SeqToSet(ParseScopes(cmds[i + 1].stderr))

\* The message _check_github_prerequisites gives for the check logged at cmds[i].
PrerequisiteMessageAt(i) ==
    IF cmds[i].rc # 0 THEN <<"gh CLI not installed.">>
    ELSE IF cmds[i + 1].rc # 0 THEN <<"Not authenticated with GitHub.">>
    ELSE <<"Current GitHub authentication is missing required scopes: ", "repo">>

\* C6: in a create run that is not a dry run, every invocation of
\* create_repository directly follows a prerequisite check that found gh
\* installed, the session authenticated and the repo scope present; a failed
\* check is the last thing the run does: no command follows it, the run
\* returns 1 and reports the check's message.
C6_PrerequisitesBeforeCreate ==
    (CreateRun /\ ~args.dry_run) =>
        /\ \A k \in DOMAIN calls : PrerequisitesMetAt(calls[k].at - 1)
        /\ \A i \in DOMAIN cmds :
              (cmds[i].cmd = GhVersion /\ ~PrerequisitesMetAt(i)) =>
                  /\ Len(cmds) = (IF cmds[i].rc = 0 THEN i + 1 ELSE i)
                  /\ Returned /\ exitCode = 1
                  /\ printed[Len(printed)] =
                        Line("stderr", "error_creating_repository", PrerequisiteMessageAt(i))

C6_Witness ==
    /\ CreateRun /\ Returned /\ Len(calls) = 1 /\ calls[1].returned
    /\ PrerequisitesMetAt(calls[1].at - 1)
    /\ \E i \in DOMAIN cmds :
          /\ i > calls[1].at
          /\ cmds[i].cmd = GhVersion /\ cmds[i].rc = 0
          /\ cmds[i + 1].rc = 0 /\ ~PrerequisitesMetAt(i)

\* C7 (as stated): in dry-run mode no subprocess is ever run; a direct
\* create_repository call of a dry-run client returns a success result; a
\* create run with --dry-run and a valid non-empty selection returns exit
\* code 0 without prerequisite checks, git or the create command.
C7_DryRunSucceedsWithoutSubprocess ==
    args.dry_run =>
        /\ cmds = <<>>
        /\ (entry = "create_repository" /\ Returned) => (result.success /\ result.dry_run)
        /\ (CreateRun /\ Returned /\ validate_repo_name(args.repo_name) /\ prepared = "ok")
              => (exitCode = 0 /\ calls = <<>>)

\* C7 (amended): in dry-run mode no subprocess is ever run; a direct
\* create_repository call of a dry-run client returns a success result; a
\* create run with --dry-run and a valid non-empty selection makes no
\* prerequisite check, git or create command, and returns exit code 0 exactly
\* when the package builds and validates and the copy to --output-dir, if one
\* is asked for, succeeds; otherwise it returns 1.
C7_DryRunWithoutSubprocess ==
    args.dry_run =>
        /\ cmds = <<>>
        /\ (entry = "create_repository" /\ Returned) => (result.success /\ result.dry_run)
        /\ (CreateRun /\ Returned /\ validate_repo_name(args.repo_name) /\ prepared = "ok")
              => /\ calls = <<>>
                 /\ exitCode = (IF PackageBuilds /\ ~CopyFailure THEN 0 ELSE 1)

C7_Witness ==
    /\ CreateRun /\ args.dry_run /\ Returned /\ ws.created
    /\ exitCode = 0 /\ outdir = "copy" /\ cmds = <<>>

\* The follow-up commands of the template-marking step.
IsFollowUp(c) == c.cmd = GhApiUser \/ (Len(c.cmd) = 5 /\ SubSeq(c.cmd, 1, 3) = <<"gh", "repo", "edit">>)

IsCreate(c) == Len(c.cmd) >= 3 /\ SubSeq(c.cmd, 1, 3) = <<"gh", "repo", "create">>

\* The error the failed follow-up command c stands for.
FollowUpError(c) ==
    IF c.cmd = GhApiUser THEN <<"Failed to get authenticated user: ">> \o c.stderr
    ELSE IF c.rc = -1 THEN <<"[Errno 2] No such file or directory: 'gh'">>
    ELSE c.stderr

\* C8: when create_repository returns after a create command that succeeded,
\* with template=True and a follow-up step that failed, it returns
\* success=False with the follow-up's error, and the failed follow-up command
\* is the last command it ran: nothing is issued to undo the creation.
C8_TemplateFailureCollapses ==
    (/\ pc = "create_repository_returned"
     /\ cr.template
     /\ Len(cmds) >= 1 /\ IsFollowUp(cmds[Len(cmds)]) /\ cmds[Len(cmds)].rc # 0) =>
        /\ \E i \in (calls[Len(calls)].at + 1)..(Len(cmds) - 1) :
              /\ IsCreate(cmds[i]) /\ cmds[i].rc = 0
              /\ \A j \in (i + 1)..Len(cmds) : IsFollowUp(cmds[j])
        /\ ~result.success
        /\ result.error = FollowUpError(cmds[Len(cmds)])

C8_Witness ==
    /\ pc = "create_repository_returned" /\ cr.template /\ ~result.success
    /\ Len(cmds) >= 2
    /\ IsFollowUp(cmds[Len(cmds)]) /\ cmds[Len(cmds)].cmd # GhApiUser /\ cmds[Len(cmds)].rc = 1
    /\ cmds[Len(cmds) - 1].cmd = GhApiUser

\* C9: a direct call of mark_repository_as_template with no organization runs
\* the identity query first and then `gh repo edit <login>/<name> --template`;
\* when the query exits non-zero it returns success=False with an error
\* labelled "Failed to get authenticated user" and runs no edit; with an
\* organization it runs the edit for <org>/<name> and no identity query.
C9_MarkResolvesIdentityFirst ==
    (entry = "mark_repository_as_template" /\ Returned) =>
        IF args.org \in {None, ""}
        THEN /\ Len(cmds) >= 1 /\ cmds[1].cmd = GhApiUser
             /\ IF cmds[1].rc # 0
                THEN /\ Len(cmds) = 1
                     /\ ~result.success
                     /\ Head(result.error) = "Failed to get authenticated user: "
                ELSE /\ Len(cmds) = 2
                     /\ cmds[2].cmd = <<"gh", "repo", "edit",
                                        "octocat/" \o args.repo_name, "--template">>
        ELSE /\ Len(cmds) = 1
             /\ cmds[1].cmd = <<"gh", "repo", "edit",
                                args.org \o "/" \o args.repo_name, "--template">>

C9_Witness ==
    /\ entry = "mark_repository_as_template" /\ Returned
    /\ args.org = None /\ Len(cmds) = 2 /\ result.success

HasToken(cmd, t) == \E i \in DOMAIN cmd : cmd[i] = t

\* C10: for every combination of arguments, the list build_create_command
\* returns holds --source if and only if it holds --push; with a source path
\* it holds --source, the path and --push together, and without one it holds
\* neither.  The same holds of every create command a run issues.
C10_SourceAndPushCoupled ==
    /\ (entry = "build_create_command" /\ Returned) =>
          /\ HasToken(result.output, "--source") <=> HasToken(result.output, "--push")
          /\ args.source_path \notin {None, ""} =>
                \E i \in 1..(Len(result.output) - 2) :
                    SubSeq(result.output, i, i + 2) = <<"--source", args.source_path, "--push">>
          /\ args.source_path \in {None, ""} => ~HasToken(result.output, "--source")
    /\ \A i \in DOMAIN cmds :
          IsCreate(cmds[i]) =>
             /\ HasToken(cmds[i].cmd, "--source") /\ HasToken(cmds[i].cmd, "--push")
             /\ HasToken(cmds[i].cmd, WORKSPACE)

C10_Witness ==
    /\ entry = "build_create_command" /\ Returned
    /\ args.source_path = "/tmp/ws" /\ args.org = "my-org" /\ args.private
    /\ HasToken(result.output, "--push")

----------------------------------------------------------------------------
\* Properties of single methods called directly

\* C11 (as stated): execute_command never raises; every call returns a result,
\* which for a command that ran has success true exactly when the exit code is
\* 0 and holds the captured stdout, stderr and return code, and for a command
\* that could not be executed has success false and an error text.
C11_ExecuteCommandNeverRaises ==
    entry = "execute_command" =>
        /\ \A i \in DOMAIN ret : ret[i].raised = None
        /\ Len(cmds) = Len(ret)
        /\ \A i \in DOMAIN ret :
              IF cmds[i].rc # -1
              THEN /\ ret[i].value.success <=> (cmds[i].rc = 0)
                   /\ ret[i].value.output = cmds[i].stdout
                   /\ ret[i].value.error = cmds[i].stderr
                   /\ ret[i].value.returncode = cmds[i].rc
              ELSE /\ ~ret[i].value.success
                   /\ ret[i].value.error # <<>>

\* The scopes each `gh auth status` output of the model lists.
ListedScopes(output) ==
    IF output = ScopesRepo THEN <<"repo", "read:org">>
    ELSE IF output = ScopesGist THEN <<"gist">>
    ELSE <<>>

Embeds(text, stream) == \A i \in DOMAIN stream : Contains(text, stream[i])

\* The last command run was the stage or the commit step, and it failed.
StepFailed(step) ==
    /\ Len(cmds) >= 1
    /\ cmds[Len(cmds)].cmd = step
    /\ cmds[Len(cmds)].rc # 0

----------------------------------------------------------------------------
\* Properties of the selector

SelectorEntries ==
    {"select_by_construct", "select_by_type", "select_by_construct_and_type",
     "select_by_notebooks", "select_by_pattern"}

\* The list is in ascending order.
Ascending(list) == \A i \in 1..(Len(list) - 1) : ~StrLess(list[i + 1], list[i])

\* No element occurs twice in the list.
NoDuplicates(list) == \A i, j \in DOMAIN list : list[i] = list[j] => i = j

\* C14 (as stated): whenever select_by_construct, select_by_type,
\* select_by_construct_and_type, select_by_notebooks or select_by_pattern
\* returns normally, also for input lists that name the same id more than once,
\* the list it returns is in ascending order and holds no exercise id twice.
C14_SelectionsSortedAndUnique ==
    entry \in SelectorEntries =>
        \A i \in DOMAIN ret :
            ret[i].raised = None => (Ascending(ret[i].value) /\ NoDuplicates(ret[i].value))

\* C15: over an unchanged taxonomy, two calls of select_by_construct with the
\* same constructs return identical sequences, and for valid constructs a and b
\* the ids of select_by_construct([a]) and of select_by_construct([b]) together
\* are exactly the ids of select_by_construct([a, b]).
C15_SelectByConstructDistributes ==
    entry = "select_by_construct" =>
        /\ \A i, j \in DOMAIN ret : arg.requests[i] = arg.requests[j] => ret[i] = ret[j]
        /\ \A i, j, k \in DOMAIN ret :
              (/\ Len(arg.requests[i]) = 1 /\ Len(arg.requests[j]) = 1
               /\ arg.requests[k] = arg.requests[i] \o arg.requests[j]
               /\ ret[i].raised = None /\ ret[j].raised = None) =>
                  /\ ret[k].raised = None
                  /\ SeqToSet(ret[i].value) \cup SeqToSet(ret[j].value) = SeqToSet(ret[k].value)

C15_Witness ==
    /\ entry = "select_by_construct" /\ pc = "done" /\ tree = FullTree
    /\ arg.requests = <<<<"sequence">>, <<"selection">>, <<"sequence", "selection">>, <<"sequence">>>>
    /\ ret[1] = ret[4]
    /\ ret[3].value = <<Ex1, Ex10, Ex2>>

\* The notebooks a flat scan of notebooks/ discovers in each taxonomy of the model.
Discoverable == IF tree = FullTree THEN {Ex1, Ex2, Ex10} ELSE {}

\* What each pattern of the model matches among ex1, ex10 and ex2, in ascending order.
Matching(pattern) ==
    IF tree # FullTree THEN <<>>
    ELSE IF pattern \in {<<"e", "x", "*">>, <<"*">>} THEN <<Ex1, Ex10, Ex2>>
    ELSE IF pattern = <<"e", "x", "1", "?">> THEN <<Ex10>>
    ELSE IF pattern \in {<<"?", "x", "1">>, Ex1} THEN <<Ex1>>
    ELSE <<>>

\* C16: select_by_pattern raises an invalid-pattern error exactly when the
\* pattern is empty or holds a path separator; for every other pattern it
\* returns the discoverable notebook stems the glob matches, in ascending
\* order, and the empty list, not an error, when none matches.
C16_PatternRaisesOnlyWhenInvalid ==
    entry = "select_by_pattern" =>
        \A i \in DOMAIN ret :
            IF arg.requests[i] = <<>> \/ \E k \in DOMAIN arg.requests[i] : arg.requests[i][k] = "/"
            THEN /\ ret[i].raised = "ValueError"
                 /\ ret[i].value = <<"Invalid pattern: ", arg.requests[i]>>
            ELSE /\ ret[i].raised = None
                 /\ ret[i].value = Matching(arg.requests[i])

C16_Witness ==
    /\ entry = "select_by_pattern" /\ pc = "done" /\ tree = FullTree
    /\ arg.requests = << <<"e", "x", "9", "*">>, <<"a", "/", "e", "x", "1">> >>
    /\ ret[1] = [raised |-> None, value |-> <<>>]
    /\ ret[2].raised = "ValueError"

\* C17: select_by_notebooks raises an invalid-selection error for an empty list
\* and for any list holding an id that is not the stem of a discoverable
\* notebook, the error naming a missing id; it returns only when every
\* requested id is discoverable, and every id it returns was requested.
C17_NotebooksValidated ==
    entry = "select_by_notebooks" =>
        \A i \in DOMAIN ret :
            LET notebooks == arg.requests[i]
            IN IF notebooks = <<>>
               THEN ret[i].raised = "ValueError"
               ELSE IF \E k \in DOMAIN notebooks : notebooks[k] \notin Discoverable
               THEN /\ ret[i].raised = "ValueError"
                    /\ ret[i].value[1] = "Notebook not found: "
                    /\ ret[i].value[2] \in SeqToSet(notebooks) \ Discoverable
               ELSE /\ ret[i].raised = None
                    /\ SeqToSet(ret[i].value) = SeqToSet(notebooks)

C17_Witness ==
    /\ entry = "select_by_notebooks" /\ pc = "done" /\ tree = FullTree
    /\ arg.requests = << <<Ex2, Ex9>>, <<Ex10, Ex2, Ex1>> >>
    /\ ret[1] = [raised |-> "ValueError", value |-> <<"Notebook not found: ", Ex9>>]
    /\ ret[2] = [raised |-> None, value |-> <<Ex1, Ex10, Ex2>>]

----------------------------------------------------------------------------
\* Properties of the packager

\* C18: validate_package(workspace) raises nothing and returns True exactly when
\* pyproject.toml, pytest.ini, README.md and tests/notebook_grader.py all exist
\* in the workspace and notebooks/ and tests/ both exist as directories.
C18_ValidatePackageIffComplete ==
    (entry = "validate_package" /\ pc = "done") =>
        /\ Len(ret) = 1
        /\ ret[1].raised = None
        /\ ret[1].value = TRUE <=>
              /\ \A f \in RequiredFiles : f \in ws.files \/ (f \o "/") \in ws.files
              /\ RequiredDirs \subseteq ws.files

C18_Witness ==
    /\ entry = "validate_package" /\ pc = "done"
    /\ ret[1].value = TRUE
    /\ "README.md/" \in ws.files

PackageComplete ==
    /\ {"pyproject.toml", "pytest.ini"} \subseteq repo.template_files
    /\ repo.grader
    /\ \E i \in DOMAIN arg.files : arg.files[i].notebook \/ arg.files[i].solution

C20_CleanupIdempotent ==
    /\ [](entry = "cleanup" /\ Len(ret) >= 1 =>
             /\ ~ws.exists
             /\ ws.files = {}
             /\ \A i \in DOMAIN ret : ret[i].raised = None)
    /\ [][entry = "cleanup" /\ Len(ret) >= 1 => ws' = ws /\ outdir' = outdir]_vars

C20_Witness ==
    /\ entry = "cleanup" /\ pc = "done"
    /\ cleanups = MaxCleanups
    /\ Len(ret) = MaxCleanups
    /\ ~ws.exists

----------------------------------------------------------------------------
\* Properties of the collector

\* The text holds the exercise id, character by character.
ContainsId(text, exercise_id) ==
    \E k \in 0..(Len(text) - Len(exercise_id)) :
        SubSeq(text, k + 1, k + Len(exercise_id)) = exercise_id

\* C21: collect_files(id) raises a missing-file error naming the id whenever the
\* notebook or the test file of the id is absent; otherwise it returns the
\* notebook and test paths, which exist, and an absent solution or metadata is
\* recorded as a role without a path.
C21_CollectRequiresNotebookAndTest ==
    entry = "collect_files" =>
        \A i \in DOMAIN ret :
            LET id == arg.requests[i]
            IN  IF ~HasNotebook(id) \/ ~HasTest(id)
                THEN /\ ret[i].raised = "FileNotFoundError"
                     /\ ContainsId(ret[i].value, id)
                ELSE /\ ret[i].raised = None
                     /\ ret[i].value.notebook = notebook_path(id)
                     /\ ret[i].value.test = test_path(id)
                     /\ ~HasSolution(id) => ret[i].value.solution = NoPath
                     /\ Readmes(id) = {} => ret[i].value.metadata = NoPath

C21_Witness ==
    /\ entry = "collect_files" /\ pc = "done"
    /\ Len(ret) = 2
    /\ ret[1].raised = "FileNotFoundError"
    /\ HasNotebook(arg.requests[1])
    /\ ret[2].raised = None
    /\ ret[2].value.solution = NoPath
    /\ ret[2].value.metadata = NoPath

----------------------------------------------------------------------------
\* Properties of the create run, continued

\* C22: a create run whose selection fails, selects nothing or whose collection
\* fails returns exit code 1 without ever creating a workspace: no workspace
\* exists, no command has run and nothing is written at any step.
C22_NoWorkspaceWhenPreparationFails ==
    /\ []((entry = "create_command" /\ prepared # "ok") =>
             /\ ~ws.created /\ ~ws.exists /\ ws.files = {}
             /\ cmds = <<>>
             /\ cleanups = 0
             /\ pc = "done" => exitCode = 1)
    /\ [][(entry = "create_command" /\ prepared # "ok") => (ws' = ws /\ outdir' = outdir)]_vars

C22_Witness ==
    /\ entry = "create_command" /\ pc = "done"
    /\ validate_repo_name(args.repo_name)
    /\ prepared = "missing_file"
    /\ exitCode = 1
    /\ ~ws.created

\* C23: copy_template_base_files raises the template-source-missing error and
\* leaves the workspace unchanged when template_repo_files/ does not exist; when
\* it exists the call raises nothing and ends with tests/__init__.py in the
\* workspace, whatever the workspace held before.
C23_BaseFilesAlwaysMarkTests ==
    [][pc = "copy_template_base_files" =>
          IF ~repo.template_dir
          THEN /\ exc'.type = "FileNotFoundError"
               /\ exc'.msg = <<"Template files directory not found">>
               /\ ws' = ws
          ELSE /\ exc' = exc
               /\ "tests/__init__.py" \in ws'.files]_vars

TracePrinted == \E i \in DOMAIN printed : printed[i].kind = "traceback"

\* The run raised an exception that reached the except clauses of
\* _execute_template_creation.
ExceptionRaised == entry = "create_command" /\ exc # NoException

C25_TokensOnlyRead ==
    [][entry = "create_command" => env' = env]_vars

\* C25: a create run changes GITHUB_TOKEN and GH_TOKEN at one step only: after
\* the integration-permission error, when the user answers y or yes to the
\* prompt, the variable that was detected is removed and the other one is kept.
C25_TokenRemovedOnlyOnConsent ==
    [][(entry = "create_command" /\ env' # env) =>
          /\ pc = "offer_unset_token_and_reauth"
          /\ loc.env_key \in {"GITHUB_TOKEN", "GH_TOKEN"}
          /\ loc.env_key = detect_auth_token_env(env)
          /\ is_integration_permission_error(loc.error_msg)
          /\ Len(prompts') = Len(prompts) + 1
          /\ Lower(Strip(prompts'[Len(prompts')].answer)) \in {<<"y">>, <<"yes">>}
          /\ env' = [env EXCEPT ![loc.env_key] = None]]_vars

C25_Witness ==
    /\ entry = "create_command" /\ pc = "done"
    /\ Len(prompts) = 1
    /\ prompts[1].env_key = "GITHUB_TOKEN"
    /\ env["GITHUB_TOKEN"] = None
    /\ env["GH_TOKEN"] = "ghu_fake"

\* The run has touched the host: a command has run, the user was prompted, or the
\* dry-run intent was printed.
HostTouched ==
    \/ cmds # <<>>
    \/ prompts # <<>>
    \/ \E i \in DOMAIN printed : printed[i].kind = "dry_run"

ValidationFailed == \E i \in DOMAIN printed : printed[i].kind = "validation_failed"

\* C26: in a create run copy_exercise_files, copy_template_base_files,
\* generate_readme and validate_package run in that order; the run touches the
\* host only after validate_package returned True on the populated workspace;
\* when it returns False the run cleans up, exits 1 and never touches the host.
C26_HostOnlyAfterValidatedPackage ==
    /\ [](entry = "create_command" =>
             /\ pc \in {"create_command", "create_workspace", "copy_exercise_files",
                        "copy_template_base_files", "generate_readme", "validate_package"}
                   => ~HostTouched
             /\ ValidationFailed =>
                   (pc = "done" /\ exitCode = 1 /\ ~ws.exists /\ cleanups = 1 /\ ~HostTouched))
    /\ [][(entry = "create_command" /\ pc' # pc) =>
             /\ pc' = "copy_exercise_files" => (pc = "create_workspace" /\ ws'.files = {})
             /\ pc' = "copy_template_base_files" =>
                   (pc = "copy_exercise_files" /\ ExerciseFiles \subseteq ws'.files)
             /\ pc' = "generate_readme" =>
                   (pc = "copy_template_base_files" /\ "tests/__init__.py" \in ws'.files)
             /\ pc' = "validate_package" => (pc = "generate_readme" /\ "README.md" \in ws'.files)
             /\ pc' = "handle_repository_creation" =>
                   /\ pc = "validate_package"
                   /\ ws' = ws
                   /\ RequiredFiles \cup RequiredDirs \subseteq ws.files
             /\ (pc = "validate_package" /\ ~(RequiredFiles \cup RequiredDirs \subseteq ws.files))
                   => (pc' = "done" /\ ValidationFailed')
             /\ HostTouched' /\ ~HostTouched =>
                   pc \in {"handle_repository_creation", "check_github_prerequisites"}]_vars

C26_Witness ==
    /\ entry = "create_command"
    /\ pc = "init_git_repo"
    /\ cmds # <<>>
    /\ ws.exists
    /\ RequiredFiles \cup RequiredDirs \subseteq ws.files

----------------------------------------------------------------------------
\* Properties of the host client, continued

\* The commands run from the k-th call of create_repository up to the next call.
CallCmds(k) ==
    SubSeq(cmds, calls[k].at + 1, IF k < Len(calls) THEN calls[k + 1].at ELSE Len(cmds))

IsGit(c) == Head(c.cmd) = "git"

\* The two queries of the global identity, whose exit code is not checked.
IsIdentityQuery(c) == c.cmd \in {GitConfigGetName, GitConfigGetEmail}

GitStepFailed(c) == IsGit(c) /\ c.rc # 0 /\ ~IsIdentityQuery(c)

SourceIsWorkspace(c) ==
    \E i \in 1..(Len(c.cmd) - 1) : SubSeq(c.cmd, i, i + 1) = <<"--source", WORKSPACE>>

\* C27: in a create_repository call that is no dry run, without
\* skip_git_operations `git init` has succeeded before any step of the commit
\* sequence, the commit has succeeded before the create command, and a failed
\* git step leaves the create command unissued; with skip_git_operations no git
\* command is run and the create command is run with the workspace as --source.
C27_GitBeforeCreateUnlessSkipped ==
    \A k \in DOMAIN calls :
        ~calls[k].dry_run =>
            LET seg == CallCmds(k)
            IN  IF ~calls[k].skip_git_operations
                THEN /\ \A i \in DOMAIN seg :
                           (IsGit(seg[i]) /\ i > 1) => (seg[1].cmd = GitInit /\ seg[1].rc = 0)
                     /\ \A i \in DOMAIN seg :
                           IsCreate(seg[i]) =>
                              /\ i >= 6
                              /\ seg[1].cmd = GitInit /\ seg[1].rc = 0
                              /\ seg[i - 2].cmd = GitAdd /\ seg[i - 2].rc = 0
                              /\ seg[i - 1].cmd = GitCommit /\ seg[i - 1].rc = 0
                              /\ SourceIsWorkspace(seg[i])
                     /\ (\E i \in DOMAIN seg : GitStepFailed(seg[i])) =>
                           \A j \in DOMAIN seg : ~IsCreate(seg[j])
                ELSE /\ \A i \in DOMAIN seg : ~IsGit(seg[i])
                     /\ (k < Len(calls) \/ pc # "execute_create") =>
                           /\ Len(seg) >= 1
                           /\ IsCreate(seg[1])
                           /\ SourceIsWorkspace(seg[1])

C27_Witness ==
    /\ Len(calls) = 2
    /\ ~calls[1].skip_git_operations /\ calls[2].skip_git_operations
    /\ calls[2].returned
    /\ cmds[calls[1].at + 1].cmd = GitInit
    /\ \E i \in DOMAIN CallCmds(1) : IsCreate(CallCmds(1)[i])
    /\ IsCreate(cmds[calls[2].at + 1])

\* C28: in a create_repository call the follow-up commands (identity query,
\* `gh repo edit --template`) are run only after a create command that
\* succeeded and only with template=True; when the create command fails or
\* template=False no follow-up is run and the call returns the result of the
\* create command as execute_command gave it.
C28_FollowUpOnlyAfterSuccessfulCreate ==
    \A k \in DOMAIN calls :
        LET seg == CallCmds(k)
        IN  /\ \A j \in DOMAIN seg :
                  IsFollowUp(seg[j]) =>
                     /\ calls[k].template
                     /\ \E i \in 1..(j - 1) : IsCreate(seg[i]) /\ seg[i].rc = 0
            /\ \A i \in DOMAIN seg :
                  (IsCreate(seg[i]) /\ (seg[i].rc # 0 \/ ~calls[k].template)) =>
                     /\ \A j \in DOMAIN seg : ~IsFollowUp(seg[j])
                     /\ calls[k].returned =>
                           calls[k].result =
                              execute_command(seg[i].rc, seg[i].stdout, seg[i].stderr)

C28_Witness ==
    /\ Len(calls) = 2
    /\ calls[1].template /\ calls[1].returned /\ ~calls[1].result.success
    /\ \A j \in DOMAIN CallCmds(1) : ~IsFollowUp(CallCmds(1)[j])
    /\ calls[2].returned /\ calls[2].result.success
    /\ IsFollowUp(cmds[Len(cmds)])

----------------------------------------------------------------------------
\* Properties of the selector, continued

\* The list is empty or holds a name that fails the validation of the method.
InvalidSelection(names) ==
    \/ names = <<>>
    \/ \E j \in DOMAIN names :
          IF entry = "select_by_construct" THEN ~validate_construct_name(names[j])
          ELSE ~validate_type_name(names[j])

\* C30: select_by_construct and select_by_type raise ValueError when the list is
\* empty or any of its elements fails validation, at whatever position and
\* whatever the taxonomy on disk is; they return a list only when every element
\* is valid.
C30_InvalidSelectionRaisesBeforeScan ==
    entry \in {"select_by_construct", "select_by_type"} =>
        \A i \in DOMAIN ret :
            /\ InvalidSelection(arg.requests[i]) => ret[i].raised = "ValueError"
            /\ ret[i].raised = None => ~InvalidSelection(arg.requests[i])
            /\ ret[i].raised = "ValueError" => InvalidSelection(arg.requests[i])

C30_Witness ==
    /\ entry = "select_by_type" /\ pc = "done"
    /\ tree = NoTree
    /\ arg.requests[3] = <<"debug", "Debug">>
    /\ ret[3].raised = "ValueError"
    /\ ret[1].raised = "FileNotFoundError"

Digits == {"0", "1", "2", "3", "4", "5", "6", "7", "8", "9"}

\* The name is "ex" followed by three digits and anything after them.
ExThreeDigits(name) ==
    /\ Len(name) >= 5
    /\ SubSeq(name, 1, 2) = <<"e", "x">>
    /\ \A i \in 3..5 : name[i] \in Digits

ScanEntries ==
    {"select_by_construct", "select_by_type", "select_by_construct_and_type",
     "select_by_pattern"}

\* C31 as stated: every id a directory scan or the notebook scan returns is
\* "ex" followed by three digits.
C31_ScansReturnExThreeDigits ==
    entry \in ScanEntries =>
        \A i \in DOMAIN ret :
            ret[i].raised = None =>
                \A j \in DOMAIN ret[i].value : ExThreeDigits(ret[i].value[j])

\* C31: every id a directory scan returns is the name of an exercise directory
\* that starts with "ex", every id the notebook scan returns is the stem of a
\* notebook file that starts with "ex", and a name that does not start with
\* "ex" is never returned.
C31_ScansReturnExPrefixed ==
    entry \in ScanEntries =>
        \A i \in DOMAIN ret :
            ret[i].raised = None =>
                \A j \in DOMAIN ret[i].value :
                    LET id == ret[i].value[j]
                    IN  /\ Len(id) >= 2 /\ SubSeq(id, 1, 2) = <<"e", "x">>
                        /\ IF entry = "select_by_pattern"
                           THEN (id \o <<".ipynb">>) \in tree.notebooks
                           ELSE \E x \in tree.entries : x.name = id /\ x.is_dir

C31_Witness ==
    /\ entry = "select_by_construct" /\ pc = "done"
    /\ tree = NumberedTree
    /\ ret[1].raised = None
    /\ ret[1].value = <<<<"e", "x", "0", "0", "1">>, <<"e", "x", "0", "1">>, <<"e", "x", "a">>>>

----------------------------------------------------------------------------
\* Properties of the create run: reported errors, selection, re-authentication

\* The error text matches the integration-permission pattern.
PermissionPattern(error) ==
    /\ \E i \in DOMAIN error : error[i] \in {"Resource not accessible by integration",
                                             "resource not accessible by integration"}
    /\ \E i \in DOMAIN error : error[i] \in {"createRepository", "createrepository"}

\* The error text holds "already exists".
ConflictPattern(error) ==
    \E i \in DOMAIN error : error[i] \in {"Name already exists", "name already exists",
                                          "already exists"}

\* The remediation hint for the token variable that is set, if any.
RemediationHint ==
    <<"The current GitHub authentication token cannot create repositories. ">>
      \o (IF env["GITHUB_TOKEN"] \notin {None, ""}
          THEN <<" It looks like GITHUB_TOKEN is set", "Unset GITHUB_TOKEN">>
          ELSE IF env["GH_TOKEN"] \notin {None, ""}
          THEN <<" Ensure GH_TOKEN references a personal access token">>
          ELSE <<>>)

\* C32: the message of a terminal creation failure is the raw error text,
\* followed by the remediation hint for the token variable set at that moment
\* when the text matches the integration-permission pattern, otherwise by the
\* naming-conflict hint with the repository name when the text holds "already
\* exists", otherwise by nothing.
C32_ErrorFollowedByAtMostOneHint ==
    (CreateRun /\ Returned) =>
        \A i \in DOMAIN printed :
            printed[i].kind = "error_creating_repository" =>
                printed[i].text =
                    loc.error_msg
                      \o (IF PermissionPattern(loc.error_msg)
                          THEN <<"\n\n">> \o RemediationHint
                          ELSE IF ConflictPattern(loc.error_msg)
                          THEN <<"\n\n", "A repository named '", args.repo_name,
                                 "' already exists. ">>
                          ELSE <<>>)

C32_Witness ==
    /\ CreateRun /\ Returned
    /\ loc.error_msg = PermissionAndExistsError
    /\ env["GITHUB_TOKEN"] = None /\ env["GH_TOKEN"] = "ghu_fake"
    /\ Len(prompts) = 1
    /\ printed[Len(printed)].kind = "error_creating_repository"

\* The mode the arguments select: the first option given, in the order
\* notebooks, construct with type, construct, type.
SelectionMode(a) ==
    IF a.notebooks # <<>> THEN "notebooks"
    ELSE IF a.construct # <<>> /\ a.type # <<>> THEN "construct_and_type"
    ELSE IF a.construct # <<>> THEN "construct"
    ELSE IF a.type # <<>> THEN "type"
    ELSE "none"

\* The ids a mode can produce from the taxonomy, whatever the other options say.
ModeIds(a) ==
    CASE SelectionMode(a) = "notebooks" -> {Stem(f) : f \in tree.notebooks}
      [] SelectionMode(a) = "construct_and_type" ->
            {x.name : x \in {y \in tree.entries : /\ \E i \in DOMAIN a.construct :
                                                        a.construct[i] = y.construct
                                                  /\ \E i \in DOMAIN a.type : a.type[i] = y.type}}
      [] SelectionMode(a) = "construct" ->
            {x.name : x \in {y \in tree.entries : \E i \in DOMAIN a.construct :
                                                     a.construct[i] = y.construct}}
      [] SelectionMode(a) = "type" ->
            {x.name : x \in {y \in tree.entries : \E i \in DOMAIN a.type : a.type[i] = y.type}}
      [] OTHER -> {}

\* C33 (as stated): the selection _select_exercises returns comes from one
\* mode (notebooks, else construct and type, else construct, else type, else an
\* error) and is in ascending order without duplicates, whatever the arguments,
\* several --notebooks entries with overlapping matches included.
C33_SelectionOneModeSortedUnique ==
    entry = "select_exercises" =>
        \A i \in DOMAIN ret :
            /\ SelectionMode(arg.requests[i]) = "none" => ret[i].raised = "ValueError"
            /\ ret[i].raised = None =>
                  /\ SeqToSet(ret[i].value) \subseteq ModeIds(arg.requests[i])
                  /\ Ascending(ret[i].value)
                  /\ NoDuplicates(ret[i].value)

\* The part of C33 that the code keeps: one mode, chosen in the stated order.
C33_SelectionOneMode ==
    entry = "select_exercises" =>
        \A i \in DOMAIN ret :
            /\ SelectionMode(arg.requests[i]) = "none" => ret[i].raised = "ValueError"
            /\ ret[i].raised = None => SeqToSet(ret[i].value) \subseteq ModeIds(arg.requests[i])

\* --notebooks ex2 ex1 selects ex2 before ex1; --notebooks ex1 'ex*' selects ex1 twice.
C33_UnsortedSelection ==
    /\ entry = "select_exercises" /\ pc = "done" /\ tree = FullTree
    /\ arg.requests[1].notebooks = <<Ex2, Ex1>>
    /\ ret[1] = Returns(<<Ex2, Ex1>>)

C33_DuplicatedSelection ==
    /\ entry = "select_exercises" /\ pc = "done" /\ tree = FullTree
    /\ arg.requests[1].notebooks = <<Ex1, <<"e", "x", "*">>>>
    /\ arg.requests[1].construct = <<"selection", "sequence">>
    /\ ret[1] = Returns(<<Ex1, Ex1, Ex10, Ex2>>)

\* The logout and login commands among the commands run so far.
ReauthCommands(log) == SelectSeq(log, LAMBDA c : c.cmd \in {GhAuthLogout, GhAuthLogin})

\* C34: a token variable leaves the environment, and gh auth logout and gh auth
\* login run, only in a step that has just read the answer y or yes to the
\* prompt, the logout and the login running after that answer; when the user
\* declines or is not asked, or the run is a dry run, the environment
\* stays as it was and neither command runs.
C34_ReauthOnlyAfterConsent ==
    /\ [](/\ ReauthCommands(cmds) # <<>> =>
                (~args.dry_run /\ \E j \in DOMAIN prompts : Consent(prompts[j].answer))
          /\ args.dry_run => prompts = <<>>)
    /\ [][(env' # env \/ ReauthCommands(cmds') # ReauthCommands(cmds)) =>
             /\ ~args.dry_run
             /\ prompts' = Append(prompts, prompts'[Len(prompts')])
             /\ Consent(prompts'[Len(prompts')].answer)
             /\ env' = [env EXCEPT ![prompts'[Len(prompts')].env_key] = None]
             /\ ReauthCommands(cmds') = ReauthCommands(cmds) \o SubSeq(cmds', Len(cmds) + 1, Len(cmds'))
             /\ Len(cmds') = Len(cmds) + 2
             /\ cmds'[Len(cmds) + 1].cmd = GhAuthLogout
             /\ cmds'[Len(cmds) + 2].cmd = GhAuthLogin]_vars

C34_Witness ==
    /\ CreateRun /\ Returned
    /\ Len(prompts) = 1 /\ prompts[1].answer = <<" ", "YES", "\n">>
    /\ prompts[1].env_key = "GH_TOKEN" /\ env["GH_TOKEN"] = None
    /\ Len(ReauthCommands(cmds)) = 2
    /\ exitCode = 0

\* The user declined: nothing was removed and no logout or login ran.
C34_Declined ==
    /\ CreateRun /\ Returned
    /\ Len(prompts) = 1 /\ prompts[1].answer = <<>>
    /\ env[prompts[1].env_key] # None
    /\ ReauthCommands(cmds) = <<>>

\* cmds[k] is the scope re-check _should_retry_with_reauth makes after a
\* failed create: a `gh auth status` that no `gh --version` precedes.
RecheckAt(k) ==
    /\ k \in DOMAIN cmds /\ k > 1
    /\ cmds[k].cmd = GhAuthStatus
    /\ cmds[k - 1].cmd # GhVersion

\* What check_scopes(["repo"]) returned for the `gh auth status` logged at cmds[k].
ScopeAnswerAt(k) == check_scopes(<<"repo">>, cmds[k].rc, cmds[k].stderr)

\* The `gh auth status` of the prerequisite check that opened the attempt the
\* re-check at cmds[k] belongs to: the last one before k.
PrerequisiteStatusBefore(k) ==
    CHOOSE j \in 1..(k - 1) :
        /\ j > 1 /\ cmds[j].cmd = GhAuthStatus /\ cmds[j - 1].cmd = GhVersion
        /\ \A i \in (j + 1)..(k - 1) : ~(cmds[i].cmd = GhAuthStatus /\ cmds[i - 1].cmd = GhVersion)

\* C35: in a create run the prompt is shown only after a scope re-check whose
\* answer differs from the answer the prerequisite check of the same attempt
\* got; when the re-check returns the same result, no prompt is shown, no retry
\* happens, create_repository has been invoked exactly once and the run has
\* ended with exit code 1.
C35_ReauthOnlyWhenScopeAnswerChanges ==
    CreateRun =>
        /\ \A k \in DOMAIN cmds :
              (RecheckAt(k) /\ ScopeAnswerAt(k) = ScopeAnswerAt(PrerequisiteStatusBefore(k))) =>
                  /\ prompts = <<>>
                  /\ Len(calls) = 1
                  /\ k = Len(cmds)
                  /\ Returned /\ exitCode = 1
        /\ (prompts # <<>> \/ Len(calls) >= 2) =>
              \E k \in DOMAIN cmds :
                  /\ RecheckAt(k)
                  /\ ScopeAnswerAt(PrerequisiteStatusBefore(k)).has_scopes
                  /\ ~ScopeAnswerAt(k).has_scopes

C35_Witness ==
    /\ CreateRun /\ Returned
    /\ env["GITHUB_TOKEN"] = "ghu_fake"
    /\ loc.error_msg = PermissionError
    /\ RecheckAt(Len(cmds))
    /\ ScopeAnswerAt(Len(cmds)) = ScopeAnswerAt(PrerequisiteStatusBefore(Len(cmds)))
    /\ prompts = <<>> /\ Len(calls) = 1 /\ exitCode = 1

\* The step is a call of _handle_output_directory that printed the copy error.
CopyFails ==
    /\ pc = "handle_output_directory"
    /\ Len(printed') > Len(printed)
    /\ \E i \in (Len(printed) + 1)..Len(printed') : printed'[i].kind = "error_saving_output"

PackagePassedValidation ==
    /\ validate_repo_name(args.repo_name) /\ prepared = "ok"
    /\ PackageBuilds /\ ~ValidationFailed

\* The last create_repository call returned success: its create command exited
\* with 0 and, when a template was requested, so did the `gh repo edit` that
\* marks it.
LastCreateSucceeded ==
    /\ calls # <<>>
    /\ calls[Len(calls)].returned /\ calls[Len(calls)].result.success
    /\ LET seg == CallCmds(Len(calls))
       IN /\ \E i \in DOMAIN seg : IsCreate(seg[i]) /\ seg[i].rc = 0
          /\ calls[Len(calls)].template =>
                \E i \in DOMAIN seg : /\ Len(seg[i].cmd) = 5
                                      /\ SubSeq(seg[i].cmd, 1, 3) = <<"gh", "repo", "edit">>
                                      /\ seg[i].rc = 0

\* The finalization did what it is for: the workspace was removed and, with
\* --output-dir, the copy is in place.
FinalizationSucceeded ==
    /\ ~CopyFailure
    /\ ~ws.exists
    /\ Truthy(args.output_dir) => outdir = "copy"

C37_CreatedButNotMarked ==
    /\ CreateRun /\ Returned /\ exitCode = 1
    /\ PackagePassedValidation
    /\ ~args.dry_run /\ ~args.no_template
    /\ Len(calls) = 1 /\ ~calls[1].result.success
    /\ \E i \in DOMAIN cmds : IsCreate(cmds[i]) /\ cmds[i].rc = 0
    /\ ~ws.exists

EveryIdPlacedOnce ==
    /\ tree.exercises_dir
    /\ \A x, y \in tree.entries : x.name = y.name => x = y

\* Non-empty lists of valid construct names and of valid type names.
ValidLists(constructs, types) ==
    /\ constructs # <<>> /\ \A i \in DOMAIN constructs : validate_construct_name(constructs[i])
    /\ types # <<>> /\ \A i \in DOMAIN types : validate_type_name(types[i])

\* Some exercises/<construct>/<type> of the request is there without being a directory.
SomePairIsAFile(constructs, types) ==
    \E i \in DOMAIN constructs, j \in DOMAIN types :
        /\ TypeExists(constructs[i], types[j])
        /\ types[j] \notin TypeDirs(constructs[i])

\* C38 (as stated): on a taxonomy that holds every exercise id under one
\* (construct, type) directory, select_by_construct_and_type(C, T) raises
\* nothing for non-empty lists of valid names and returns the ids that
\* select_by_construct(C) and select_by_type(T) both return; a pair without a
\* directory adds no id.
C38_PairsAreTheIntersection ==
    (entry = "select_by_construct_and_type" /\ EveryIdPlacedOnce) =>
        \A i \in DOMAIN ret :
            LET constructs == arg.requests[i].constructs
                types == arg.requests[i].types
            IN ValidLists(constructs, types) =>
                  /\ ret[i].raised = None
                  /\ \A a \in select_by_construct_outcomes(constructs),
                        b \in select_by_type_outcomes(types) :
                        /\ a.raised = None /\ b.raised = None
                        /\ SeqToSet(ret[i].value) = SeqToSet(a.value) \cap SeqToSet(b.value)

\* The same with every exercises/<construct>/<type> of the request a directory or absent.
C38_PairsAreTheIntersectionOfDirectories ==
    (entry = "select_by_construct_and_type" /\ EveryIdPlacedOnce) =>
        \A i \in DOMAIN ret :
            LET constructs == arg.requests[i].constructs
                types == arg.requests[i].types
            IN (ValidLists(constructs, types) /\ ~SomePairIsAFile(constructs, types)) =>
                  /\ ret[i].raised = None
                  /\ \A a \in select_by_construct_outcomes(constructs),
                        b \in select_by_type_outcomes(types) :
                        /\ a.raised = None /\ b.raised = None
                        /\ SeqToSet(ret[i].value) = SeqToSet(a.value) \cap SeqToSet(b.value)

\* exercises/iteration/make is a regular file: the pair lookup raises, the two
\* scans skip it.
C38_FileWhereTypeDirectory ==
    /\ entry = "select_by_construct_and_type" /\ pc = "done" /\ tree = PlacedTree
    /\ arg.requests[1] = [constructs |-> <<"iteration">>, types |-> <<"make">>]
    /\ ret[1].raised = "NotADirectoryError"
    /\ select_by_construct_outcomes(<<"iteration">>) = {Returns(<<>>)}
    /\ select_by_type_outcomes(<<"make">>) = {Returns(<<>>)}

\* Two constructs and two types, one pair of them without a directory.
C38_Intersection ==
    /\ entry = "select_by_construct_and_type" /\ pc = "done" /\ tree = PlacedTree
    /\ arg.requests[1] = [constructs |-> <<"sequence", "selection">>, types |-> <<"modify", "debug">>]
    /\ ret[1] = Returns(<<Ex1, Ex10, Ex2, Ex9>>)

\* C39 (as stated): in a create run no `gh repo create` is issued after one
\* that exited with 0.
C39_NoCreateAfterSuccessfulCreate ==
    CreateRun =>
        \A i, j \in DOMAIN cmds :
            (i < j /\ IsCreate(cmds[i]) /\ cmds[i].rc = 0) => ~IsCreate(cmds[j])

\* The first attempt created the repository and failed to mark it as a
\* template with the integration-permission text; after the re-authentication
\* the second attempt issues `gh repo create` again.
C39_SecondCreateAfterSuccessfulCreate ==
    /\ CreateRun /\ Len(calls) = 2
    /\ \E i \in DOMAIN CallCmds(1) : IsCreate(CallCmds(1)[i]) /\ CallCmds(1)[i].rc = 0
    /\ calls[1].result.error = PermissionError
    /\ \E j \in DOMAIN CallCmds(2) : IsCreate(CallCmds(2)[j])

====
